---- MODULE Spec2Model ----
(***************************************************************************)
(* Totem: the backup pipeline of a Minecraft installation.                 *)
(*                                                                         *)
(* Two implementations of the same pipeline live in the repository:        *)
(*   impl = "go"  internal/backup/backup.go PerformQuiet, driven by main.go *)
(*   impl = "ts"  src/backup.ts performBackup, driven by index.ts main      *)
(* A behaviour is one run of one of them on one installation.              *)
(*                                                                         *)
(* The filesystem is abstracted to what the pipeline observes: which of    *)
(* the fixed subpaths of the installation exist, how many entries they     *)
(* hold, and which entries of the output directory have been written.      *)
(* Every copy/catalog/archive step and the creation of the output          *)
(* directory may fail (the error classes of the pipeline), and so may the  *)
(* launch of the file browser; the write of info.md into an existing       *)
(* output directory and the removal of the uncompressed directory are      *)
(* taken to succeed.                                                       *)
(***************************************************************************)
EXTENDS Integers, Sequences, FiniteSets, TLC

VARIABLES impl, cfg, inst, pc, errors, stats, totalFiles, outDir, outItems,
          archive, outputPath, result, fatal, validation, attempted, failed,
          faults, opened, manifest, fn, exit, injected,
          pair, runs, spin, tui

vars == <<impl, cfg, inst, pc, errors, stats, totalFiles, outDir, outItems,
          archive, outputPath, result, fatal, validation, attempted, failed,
          faults, opened, manifest, fn, exit, injected,
          pair, runs, spin, tui>>

pipeVars == <<impl, cfg, inst, pc, errors, stats, totalFiles, outDir,
              outItems, archive, outputPath, result, fatal, validation,
              attempted, failed, faults, opened, manifest, exit, injected>>

(* The state of the models that stand beside the pipeline: the two Go    *)
(* entry points run side by side, two runs in a row, the spinner of      *)
(* main.go and the terminal form.                                        *)
auxVars == <<pair, runs, spin, tui>>

(* Bounds *)
MaxFiles == 2
MaxFaults == 2
MaxDeviation == 1

Impls == {"go", "ts"}

(* The subpaths of the installation root. *)
Cats == {"screenshots", "mods", "shaderpacks", "resourcepacks", "options",
         "saves", "xaero", "dh"}

Markers == {"options", "mods", "shaderpacks"}

TreeCats == {"screenshots", "saves", "xaero", "dh"}

(* Entries of the output directory. *)
OutNames == {"screenshots", "mods.txt", "shaders.txt", "shader_configs",
             "resourcepacks.txt", "options.txt", "saves", "xaero",
             "distant_horizons_server_data", "info.md"}

Absent == -1

ZeroStats == [screenshotsCopied |-> 0, modsListed |-> 0, shadersListed |-> 0,
              shaderConfigsCopied |-> 0, resourcepacksListed |-> 0,
              savesCopied |-> 0, xaeroCopied |-> 0,
              distantHorizonsCopied |-> 0]

NoResult == [returned |-> FALSE, success |-> FALSE, outputPath |-> "none",
             errors |-> <<>>, stats |-> ZeroStats, totalFiles |-> 0]

NoValidation == [done |-> FALSE, valid |-> FALSE, errors |-> <<>>,
                 probes |-> <<>>]

(* The order of the steps of one run. *)
StepOrder == <<"screenshots", "mods", "shaderpacks", "resourcepacks",
               "options", "saves", "xaero", "dh", "manifest", "zip">>

Steps == {StepOrder[i] : i \in 1..Len(StepOrder)}

StepIndex(s) == CHOOSE i \in 1..Len(StepOrder) : StepOrder[i] = s

(* exists(path) / pathExists(path) on a subpath of the installation. *)
Exists(i, c) == i.root /\ c \in i.present

(* Number of files below a copied subtree. *)
NumFiles(c) == MaxFiles

(* Immediate entries of mods/ and resourcepacks/. *)
CatalogEntries == <<[name |-> "a.jar", isDir |-> FALSE],
                    [name |-> "b.jar", isDir |-> FALSE],
                    [name |-> "sub", isDir |-> TRUE]>>

(* Immediate entries of shaderpacks/; txt: the name ends in ".txt". *)
ShaderEntries == <<[name |-> "BSL.zip", isDir |-> FALSE, txt |-> FALSE],
                   [name |-> "BSL.txt", isDir |-> FALSE, txt |-> TRUE],
                   [name |-> "Pack", isDir |-> TRUE, txt |-> FALSE]>>

Ok == [kind |-> "ok", at |-> 0]

Fault(k) == [kind |-> k, at |-> 0]

CopyFaults(n) == {[kind |-> "mkdir", at |-> 0]} \cup
                 {[kind |-> "copy", at |-> k] : k \in 0..(n - 1)}

(***************************************************************************)
(* Pure helpers of the pipeline                                            *)
(***************************************************************************)

(* The error string a failed step appends to the error list. *)
ErrorString(i, s) ==
    IF i = "go"
    THEN CASE s = "dh" -> "distant_horizons: "
           [] OTHER -> s \o ": "
    ELSE CASE s = "screenshots" -> "Failed to copy screenshots: "
           [] s = "mods" -> "Failed to list mods: "
           [] s = "shaderpacks" -> "Failed to process shaderpacks: "
           [] s = "resourcepacks" -> "Failed to list resource packs: "
           [] s = "options" -> "Failed to copy options.txt: "
           [] s = "saves" -> "Failed to copy saves: "
           [] s = "xaero" -> "Failed to copy Xaero data: "
           [] s = "dh" -> "Failed to copy Distant Horizons data: "
           [] OTHER -> "Failed to create zip: "

(* Mutant: a new error is put in front of the earlier ones. *)
LogErrorInFront(errs, i, s) == <<ErrorString(i, s)>> \o errs

(* result.Errors = append(result.Errors, ...) / errors.push(...). *)
LogError(errs, i, s) == Append(errs, ErrorString(i, s))

(* Mutant: the root is never checked. *)
RootMissingUnchecked(i) == FALSE

(* PerformQuiet's check of the installation root. *)
RootMissing(i) == ~i.root

(* Mutant: options.txt is not accepted as a marker. *)
ValidateWithoutOptions(i) ==
    IF ~i.root
    THEN [done |-> TRUE, valid |-> FALSE,
          errors |-> <<"Root path does not exist">>,
          probes |-> <<"root">>]
    ELSE LET hasMods == Exists(i, "mods")
             hasShaders == Exists(i, "shaderpacks")
             errs == IF ~hasMods /\ ~hasShaders
                     THEN <<"This doesn't look like a Minecraft installation folder.",
                            "Expected to find at least one of: options.txt, mods/, shaderpacks/">>
                     ELSE <<>>
         IN [done |-> TRUE, valid |-> Len(errs) = 0, errors |-> errs,
             probes |-> <<"root", "mods", "shaderpacks">>]

(* Mutant: the root check records its error and falls through to the     *)
(* marker checks instead of returning.                                   *)
ValidateWithoutEarlyReturn(i) ==
    LET rootErrs == IF ~i.root THEN <<"Root path does not exist">> ELSE <<>>
        hasOptions == Exists(i, "options")
        hasMods == Exists(i, "mods")
        hasShaders == Exists(i, "shaderpacks")
        errs == IF ~hasOptions /\ ~hasMods /\ ~hasShaders
                THEN rootErrs \o
                     <<"This doesn't look like a Minecraft installation folder.",
                       "Expected to find at least one of: options.txt, mods/, shaderpacks/">>
                ELSE rootErrs
    IN [done |-> TRUE, valid |-> Len(errs) = 0, errors |-> errs,
        probes |-> <<"root", "options", "mods", "shaderpacks">>]

(* validateMinecraftPath: the result and the pathExists probes it made. *)
ValidateMinecraftPath(i) ==
    IF ~i.root
    THEN [done |-> TRUE, valid |-> FALSE,
          errors |-> <<"Root path does not exist">>,
          probes |-> <<"root">>]
    ELSE LET hasOptions == Exists(i, "options")
             hasMods == Exists(i, "mods")
             hasShaders == Exists(i, "shaderpacks")
             errs == IF ~hasOptions /\ ~hasMods /\ ~hasShaders
                     THEN <<"This doesn't look like a Minecraft installation folder.",
                            "Expected to find at least one of: options.txt, mods/, shaderpacks/">>
                     ELSE <<>>
         IN [done |-> TRUE, valid |-> Len(errs) = 0, errors |-> errs,
             probes |-> <<"root", "options", "mods", "shaderpacks">>]

(* Mutant: an optional subtree is copied whenever it exists. *)
OptionalGuardIgnoringFlag(flag, ex) == ex

(* The guard of an optional copy step: the flag and the source. *)
OptionalGuard(flag, ex) == flag /\ ex

(* The guard of each step of the run. *)
Guard(c, i, s) ==
    CASE s = "saves" -> OptionalGuard(c.saves, Exists(i, "saves"))
      [] s = "xaero" -> OptionalGuard(c.xaero, Exists(i, "xaero"))
      [] s = "dh" -> OptionalGuard(c.dh, Exists(i, "dh"))
      [] s = "manifest" -> TRUE
      [] s = "zip" -> c.zip
      [] OTHER -> Exists(i, s)

(* Where the run goes after step s: always the next step. *)
NextPc(s, stepFailed) ==
    IF StepIndex(s) < Len(StepOrder)
    THEN StepOrder[StepIndex(s) + 1]
    ELSE "finish"

(* Mutant: the flag keeps the value the result was initialised with. *)
SuccessNeverRecomputed(errs) == TRUE

(* result.Success / success: computed from the final error list. *)
Success(errs) == Len(errs) = 0

RECURSIVE CountIn(_, _)
CountIn(seq, x) ==
    IF seq = <<>> THEN 0
    ELSE (IF Head(seq) = x THEN 1 ELSE 0) + CountIn(Tail(seq), x)

(* listFiles: the names of the immediate non-directory entries. *)
ListFiles(entries) == SelectSeq(entries, LAMBDA e : ~e.isDir)

(* listDirs: the names of the immediate directory entries. *)
ListDirs(entries) == SelectSeq(entries, LAMBDA e : e.isDir)

(* The names a catalog step lists: Go lists the non-directories, TS the  *)
(* files followed by the directories.                                    *)
CatalogNames(i, entries) ==
    IF i = "go" THEN [k \in 1..Len(ListFiles(entries)) |-> ListFiles(entries)[k].name]
    ELSE LET all == ListFiles(entries) \o ListDirs(entries)
         IN [k \in 1..Len(all) |-> all[k].name]

(* Mutant: a failed copy removes what it had written. *)
CopyDirRollingBack(i, n, f) ==
    IF i = "ts" /\ n = 0
    THEN [count |-> 0, err |-> FALSE, written |-> Absent]
    ELSE CASE f.kind \in {"mkdir", "copy"} ->
                [count |-> 0, err |-> TRUE, written |-> Absent]
           [] OTHER -> [count |-> n, err |-> FALSE, written |-> n]

(* copyDir(src, dst) on a subtree of n files under fault f: the count    *)
(* returned, whether it failed, and the files left below dst.            *)
CopyDir(i, n, f) ==
    IF i = "ts" /\ n = 0
    THEN [count |-> 0, err |-> FALSE, written |-> Absent]
    ELSE CASE f.kind = "mkdir" -> [count |-> 0, err |-> TRUE, written |-> Absent]
           [] f.kind = "copy" -> [count |-> f.at, err |-> TRUE, written |-> f.at]
           [] OTHER -> [count |-> n, err |-> FALSE, written |-> n]

(* The catalog step of mods/ and resourcepacks/ under fault f: whether   *)
(* the count is recorded, the count, whether an error is appended and    *)
(* the lines of the listing written (Absent: no listing).                *)
ListStep(i, entries, f) ==
    IF i = "go"
    THEN IF f.kind = "read"
         THEN [set |-> FALSE, count |-> 0, err |-> FALSE, lines |-> Absent]
         ELSE [set |-> TRUE, count |-> Len(CatalogNames(i, entries)),
               err |-> FALSE,
               lines |-> IF f.kind = "write" THEN Absent
                         ELSE Len(CatalogNames(i, entries))]
    ELSE LET all == IF f.kind = "read" THEN <<>>
                    ELSE CatalogNames(i, entries)
         IN [set |-> TRUE, count |-> Len(all), err |-> f.kind = "write",
             lines |-> IF f.kind = "write" THEN Absent ELSE Len(all)]

(* The entries of shaderpacks/ treated as config files: Go tests the    *)
(* name of every entry, TS the names of the regular files only.          *)
ShaderConfigs(i, entries) ==
    IF i = "go" THEN SelectSeq(entries, LAMBDA e : e.txt)
    ELSE SelectSeq(ListFiles(entries), LAMBDA e : e.txt)

(* The entries of shaderpacks/ listed as shader packs. *)
ShaderPacks(i, entries) ==
    IF i = "go" THEN SelectSeq(entries, LAMBDA e : ~e.txt)
    ELSE SelectSeq(ListFiles(entries), LAMBDA e : ~e.txt) \o ListDirs(entries)

(* processShaderpacks / step 3 of performBackup under fault f. *)
ProcessShaderpacks(i, entries, f) ==
    IF i = "go"
    THEN IF f.kind = "read"
         THEN [set |-> FALSE, shaders |-> 0, configs |-> 0, err |-> FALSE,
               lines |-> Absent, copied |-> Absent]
         ELSE LET cfgs == ShaderConfigs(i, entries)
                  packs == ShaderPacks(i, entries)
              IN [set |-> TRUE, shaders |-> Len(packs), configs |-> Len(cfgs),
                  err |-> FALSE,
                  lines |-> IF f.kind = "write" THEN Absent ELSE Len(packs),
                  copied |-> CASE f.kind = "mkdir" -> Absent
                               [] f.kind = "copy" -> Len(cfgs) - 1
                               [] OTHER -> Len(cfgs)]
    ELSE LET cfgs == IF f.kind = "read" THEN <<>> ELSE ShaderConfigs(i, entries)
             packs == IF f.kind = "read" THEN <<>> ELSE ShaderPacks(i, entries)
         IN [set |-> TRUE, shaders |-> Len(packs),
             configs |-> CASE f.kind \in {"write", "mkdir"} -> 0
                           [] f.kind = "copy" -> f.at
                           [] OTHER -> Len(cfgs),
             err |-> f.kind \in {"write", "mkdir", "copy"},
             lines |-> IF f.kind = "write" THEN Absent ELSE Len(packs),
             copied |-> CASE f.kind \in {"write", "mkdir"} -> Absent
                          [] f.kind = "copy" -> f.at
                          [] OTHER -> Len(cfgs)]

(* Copy of options.txt under fault f. *)
CopyOptions(i, f) ==
    [err |-> i = "ts" /\ f.kind = "copy",
     written |-> IF f.kind = "copy" THEN Absent ELSE 1]

(* Mutant: the uncompressed directory is removed and the archive path    *)
(* reported whether or not the archive was created.                      *)
ZipStepAlwaysRemoving(i, f) ==
    [err |-> f.kind = "fail", removeDir |-> TRUE,
     path |-> IF i = "go" THEN "zip" ELSE "dir"]

(* The archive step under fault f. *)
ZipStep(i, f) ==
    IF f.kind = "fail"
    THEN [err |-> TRUE, removeDir |-> FALSE, path |-> "dir"]
    ELSE [err |-> FALSE, removeDir |-> TRUE,
          path |-> IF i = "go" THEN "zip" ELSE "dir"]

(* The faults each step can meet. *)
StepFaults(s) ==
    CASE s \in TreeCats -> CopyFaults(NumFiles(s))
      [] s \in {"mods", "resourcepacks"} -> {Fault("read"), Fault("write")}
      [] s = "shaderpacks" ->
            {Fault("read"), Fault("write"), Fault("mkdir")} \cup
            {[kind |-> "copy", at |-> k] :
                k \in 0..(Len(SelectSeq(ShaderEntries, LAMBDA e : e.txt)) - 1)}
      [] s = "options" -> {Fault("copy")}
      [] s = "zip" -> {Fault("fail")}
      [] OTHER -> {}

(* The fault each step met: none before the run. *)
NoFaults == [s \in Steps \cup {"mkdir", "open"} |-> Ok]

(* The fault a step meets when the output directory is not there: TS     *)
(* goes on after a mkdir that failed with EEXIST, and every write below  *)
(* the path fails.                                                       *)
ForcedFault(s) ==
    CASE s \in TreeCats -> Fault("mkdir")
      [] s \in {"mods", "resourcepacks", "shaderpacks"} -> Fault("write")
      [] s = "options" -> Fault("copy")
      [] OTHER -> Ok

(* The statistics field and the output entry of a tree copy. *)
StatField(s) ==
    CASE s = "screenshots" -> "screenshotsCopied"
      [] s = "saves" -> "savesCopied"
      [] s = "xaero" -> "xaeroCopied"
      [] s = "mods" -> "modsListed"
      [] s = "resourcepacks" -> "resourcepacksListed"
      [] OTHER -> "distantHorizonsCopied"

OutName(s) ==
    CASE s = "dh" -> "distant_horizons_server_data"
      [] s = "mods" -> "mods.txt"
      [] s = "resourcepacks" -> "resourcepacks.txt"
      [] s = "options" -> "options.txt"
      [] OTHER -> s

(***************************************************************************)
(* Directory trees                                                         *)
(***************************************************************************)

MaxDepth == 2

FileNames == {"a", "b"}

DirNames == {"x"}

(* Size in bytes of the file of each name. *)
FileSize(name) == IF name = "a" THEN 1 ELSE 2

Missing == [kind |-> "missing", files |-> {}, subs |-> {}]

Unreadable == [kind |-> "unreadable", files |-> {}, subs |-> {}]

(* The directories of depth at most d: files, and named subdirectories. *)
RECURSIVE Trees(_)
Trees(d) ==
    IF d = 0
    THEN {[kind |-> "dir", files |-> F, subs |-> {}] : F \in SUBSET FileNames}
    ELSE {[kind |-> "dir", files |-> F, subs |-> S] :
            F \in SUBSET FileNames,
            S \in {{}} \cup {{<<n, t>>} : n \in DirNames,
                                         t \in Trees(d - 1) \cup {Unreadable}}}

(* Sum of the sizes of a set of file names. *)
RECURSIVE SumSizes(_)
SumSizes(S) ==
    IF S = {} THEN 0
    ELSE LET x == CHOOSE y \in S : TRUE IN FileSize(x) + SumSizes(S \ {x})

(* The relative paths of the files below t, each a sequence of names. *)
RECURSIVE FilePaths(_)
FilePaths(t) ==
    IF t.kind # "dir" THEN {}
    ELSE {<<f>> : f \in t.files} \cup
         UNION {{<<e[1]>> \o p : p \in FilePaths(e[2])} : e \in t.subs}

(* The relative paths of the directories below t. *)
RECURSIVE DirPaths(_)
DirPaths(t) ==
    IF t.kind # "dir" THEN {}
    ELSE UNION {{<<e[1]>>} \cup {<<e[1]>> \o p : p \in DirPaths(e[2])} :
                  e \in t.subs}

(* Sum of the sizes of the files reachable below t, and below a set of  *)
(* named subdirectories.                                                 *)
RECURSIVE TreeSize(_)
RECURSIVE SubsSize(_)
TreeSize(t) ==
    IF t.kind # "dir" THEN 0
    ELSE SumSizes(t.files) + SubsSize(t.subs)

SubsSize(S) ==
    IF S = {} THEN 0
    ELSE LET e == CHOOSE y \in S : TRUE IN TreeSize(e[2]) + SubsSize(S \ {e})

(* getDirSize: Go's walk callback dereferences the entry it is given,    *)
(* which is nil when the root cannot be stat'ed; TS catches everything.  *)
GetDirSize(i, t) ==
    IF i = "go" /\ t.kind = "missing"
    THEN [panic |-> TRUE, size |-> 0]
    ELSE [panic |-> FALSE, size |-> TreeSize(t)]

(* The subtree of the installation at subpath c, as far as sizes go. *)
SourceTree(i, c) ==
    IF Exists(i, c)
    THEN [kind |-> "dir", files |-> FileNames, subs |-> {}]
    ELSE Missing

NoManifest == [written |-> FALSE, totalFiles |-> 0, stats |-> ZeroStats,
               errors |-> <<>>, modsSize |-> 0, savesSize |-> 0]

NoCall == [op |-> "none", impl |-> "go", done |-> FALSE]

(* A model beside the pipeline that has not been started. *)
NotStarted == [pc |-> "none"]

AuxAtRest ==
    pair = NotStarted /\ runs = NotStarted /\ spin = NotStarted /\ tui = NotStarted

(* generateInfoMD: the sizes it computes and the figures it renders. *)
InfoMD(i, c, layout, st, errs) ==
    LET mods == GetDirSize(i, SourceTree(layout, "mods"))
        saves == IF c.saves THEN GetDirSize(i, SourceTree(layout, "saves"))
                 ELSE [panic |-> FALSE, size |-> 0]
    IN [panic |-> mods.panic \/ saves.panic,
        doc |-> [written |-> TRUE,
                 totalFiles |-> st.screenshotsCopied + st.shaderConfigsCopied +
                                st.savesCopied + st.xaeroCopied +
                                st.distantHorizonsCopied,
                 stats |-> st, errors |-> errs,
                 modsSize |-> mods.size, savesSize |-> saves.size]]

(***************************************************************************)
(* The state machine                                                       *)
(***************************************************************************)

(* The installations a run starts from: no root at all, or a root that   *)
(* differs from the empty or from the complete installation in at most   *)
(* MaxDeviation subpaths.                                                 *)
Layouts == {[root |-> FALSE, present |-> {}]} \cup
           {[root |-> TRUE, present |-> S] :
               S \in {T \in SUBSET Cats :
                         \/ Cardinality(T) <= MaxDeviation
                         \/ Cardinality(Cats \ T) <= MaxDeviation}}

Configs == [zip : BOOLEAN, saves : BOOLEAN, xaero : BOOLEAN, dh : BOOLEAN,
            open : BOOLEAN]

Init ==
    /\ impl \in Impls
    /\ cfg \in Configs
    /\ inst \in Layouts
    /\ pc = "start"
    /\ errors = <<>>
    /\ stats = ZeroStats
    /\ totalFiles = 0
    /\ outDir = FALSE
    /\ outItems = [n \in OutNames |-> Absent]
    /\ archive = "none"
    /\ outputPath = "none"
    /\ result = NoResult
    /\ fatal = <<>>
    /\ validation = NoValidation
    /\ attempted = {}
    /\ failed = {}
    /\ faults = 0
    /\ opened = "none"
    /\ manifest = NoManifest
    /\ fn = NoCall
    /\ exit = Absent
    /\ injected = NoFaults
    /\ AuxAtRest

(* Go: the root check of PerformQuiet.  TS: main validates the path       *)
(* before it calls performBackup.                                         *)
Validate ==
    /\ pc = "start"
    /\ IF impl = "go"
       THEN /\ validation' = validation
            /\ IF RootMissing(inst)
               THEN /\ fatal' = <<"minecraft path does not exist">>
                    /\ pc' = "aborted"
               ELSE /\ fatal' = fatal
                    /\ pc' = "mkdir"
       ELSE /\ validation' = ValidateMinecraftPath(inst)
            /\ IF ~validation'.valid
               THEN /\ fatal' = validation'.errors
                    /\ pc' = "aborted"
               ELSE /\ fatal' = fatal
                    /\ pc' = "mkdir"
    /\ UNCHANGED <<exit, fn, auxVars, manifest, impl, cfg, inst, errors, stats, totalFiles, outDir,
                   outItems, archive, outputPath, result, attempted, failed,
                   faults, opened, injected>>

(* Whether the creation of a directory under fault f is reported to the  *)
(* caller: os.MkdirAll returns every error, ensureDir drops EEXIST.      *)
MkdirReported(i, f) ==
    IF i = "go" THEN f # Ok ELSE f # Ok /\ f.kind # "exists"

(* Creation of backup_<timestamp> under the destination; "exists" is a   *)
(* non-directory already in place at that path.                          *)
CreateBackupDir ==
    /\ pc = "mkdir"
    /\ \E f \in {Ok, Fault("fail"), Fault("exists")} :
         /\ f = Ok \/ faults < MaxFaults
         /\ outDir' = (f = Ok)
         /\ faults' = IF f = Ok THEN faults ELSE faults + 1
         /\ injected' = [injected EXCEPT !["mkdir"] = f]
         /\ IF MkdirReported(impl, f)
            THEN /\ fatal' = <<"failed to create backup folder">>
                 /\ pc' = "aborted"
            ELSE /\ fatal' = fatal
                 /\ pc' = StepOrder[1]
    /\ UNCHANGED <<exit, fn, auxVars, manifest, impl, cfg, inst, errors, stats, totalFiles, outItems,
                   archive, outputPath, result, validation, attempted,
                   failed, opened>>

(* A step whose guard does not hold is skipped. *)
SkipStep ==
    /\ pc \in Steps
    /\ ~Guard(cfg, inst, pc)
    /\ pc' = NextPc(pc, FALSE)
    /\ UNCHANGED <<exit, fn, auxVars, manifest, impl, cfg, inst, errors, stats, totalFiles, outDir,
                   outItems, archive, outputPath, result, fatal, validation,
                   attempted, failed, faults, opened, injected>>

(* Bookkeeping shared by the steps: which step ran, under which fault. *)
Blocked == pc \in Steps /\ ~outDir

Ran(s, f) ==
    /\ IF Blocked THEN f = ForcedFault(s) ELSE (f = Ok \/ faults < MaxFaults)
    /\ attempted' = attempted \cup {s}
    /\ failed' = IF f = Ok THEN failed ELSE failed \cup {s}
    /\ faults' = IF f = Ok \/ Blocked THEN faults ELSE faults + 1
    /\ injected' = [injected EXCEPT ![s] = f]
    /\ pc' = NextPc(s, f # Ok)

(* Steps 1, 6, 7, 8: verbatim copy of a subtree. *)
CopyTree(s) ==
    /\ pc = s
    /\ Guard(cfg, inst, s)
    /\ \E f \in {Ok} \cup StepFaults(s) :
         LET r == CopyDir(impl, NumFiles(s), f) IN
         /\ Ran(s, f)
         /\ outItems' = [outItems EXCEPT ![OutName(s)] = r.written]
         /\ IF r.err
            THEN /\ errors' = LogError(errors, impl, s)
                 /\ UNCHANGED <<stats, totalFiles>>
            ELSE /\ errors' = errors
                 /\ stats' = [stats EXCEPT ![StatField(s)] = r.count]
                 /\ totalFiles' = IF impl = "go" THEN totalFiles + r.count
                                  ELSE totalFiles
    /\ UNCHANGED <<exit, fn, auxVars, manifest, impl, cfg, inst, outDir, archive, outputPath, result,
                   fatal, validation, opened>>

CopyScreenshots == CopyTree("screenshots")

CopySaves == CopyTree("saves")

CopyXaero == CopyTree("xaero")

CopyDistantHorizons == CopyTree("dh")

(* Steps 2 and 4: catalog of mods/ and resourcepacks/. *)
Catalog(s) ==
    /\ pc = s
    /\ Guard(cfg, inst, s)
    /\ \E f \in {Ok} \cup StepFaults(s) :
         LET r == ListStep(impl, CatalogEntries, f) IN
         /\ Ran(s, f)
         /\ outItems' = [outItems EXCEPT ![OutName(s)] = r.lines]
         /\ stats' = IF r.set THEN [stats EXCEPT ![StatField(s)] = r.count]
                     ELSE stats
         /\ errors' = IF r.err THEN LogError(errors, impl, s)
                      ELSE errors
    /\ UNCHANGED <<exit, fn, auxVars, manifest, impl, cfg, inst, totalFiles, outDir, archive, outputPath,
                   result, fatal, validation, opened>>

ListMods == Catalog("mods")

ListResourcepacks == Catalog("resourcepacks")

(* Step 3: shader packs are listed, their config files copied. *)
Shaderpacks ==
    /\ pc = "shaderpacks"
    /\ Guard(cfg, inst, "shaderpacks")
    /\ \E f \in {Ok} \cup StepFaults("shaderpacks") :
         LET r == ProcessShaderpacks(impl, ShaderEntries, f) IN
         /\ Ran("shaderpacks", f)
         /\ outItems' = [outItems EXCEPT !["shaders.txt"] = r.lines,
                                         !["shader_configs"] = r.copied]
         /\ stats' = IF r.set
                     THEN [stats EXCEPT !.shadersListed = r.shaders,
                                        !.shaderConfigsCopied = r.configs]
                     ELSE stats
         /\ errors' = IF r.err
                      THEN LogError(errors, impl, "shaderpacks")
                      ELSE errors
    /\ UNCHANGED <<exit, fn, auxVars, manifest, impl, cfg, inst, totalFiles, outDir, archive, outputPath,
                   result, fatal, validation, opened>>

(* Step 5: options.txt. *)
Options ==
    /\ pc = "options"
    /\ Guard(cfg, inst, "options")
    /\ \E f \in {Ok} \cup StepFaults("options") :
         LET r == CopyOptions(impl, f) IN
         /\ Ran("options", f)
         /\ outItems' = [outItems EXCEPT !["options.txt"] = r.written]
         /\ errors' = IF r.err
                      THEN LogError(errors, impl, "options")
                      ELSE errors
    /\ UNCHANGED <<exit, fn, auxVars, manifest, impl, cfg, inst, stats, totalFiles, outDir, archive,
                   outputPath, result, fatal, validation, opened>>

(* Step 9: info.md is written into the output directory. In Go the      *)
(* size of mods/ is taken first; in TS the write is awaited outside any  *)
(* try block, so its failure leaves performBackup as an exception.       *)
GenerateInfo ==
    /\ pc = "manifest"
    /\ LET r == InfoMD(impl, cfg, inst, stats, errors) IN
       CASE r.panic ->
              /\ pc' = "crashed"
              /\ attempted' = attempted \cup {"manifest"}
              /\ UNCHANGED <<outItems, outputPath, manifest, failed, faults,
                             injected, fatal>>
         [] ~r.panic /\ Blocked ->
              /\ pc' = "threw"
              /\ attempted' = attempted \cup {"manifest"}
              /\ failed' = failed \cup {"manifest"}
              /\ injected' = [injected EXCEPT !["manifest"] = Fault("write")]
              /\ fatal' = <<"Unexpected error">>
              /\ UNCHANGED <<outItems, outputPath, manifest, faults>>
         [] OTHER ->
              /\ Ran("manifest", Ok)
              /\ manifest' = r.doc
              /\ outItems' = [outItems EXCEPT !["info.md"] = 1]
              /\ outputPath' = "dir"
              /\ fatal' = fatal
    /\ UNCHANGED <<exit, fn, auxVars, impl, cfg, inst, errors, stats, totalFiles, outDir,
                   archive, result, validation, opened>>

(* Step 10: the archive. *)
Zip ==
    /\ pc = "zip"
    /\ Guard(cfg, inst, "zip")
    /\ \E f \in {Ok} \cup StepFaults("zip") :
         LET r == ZipStep(impl, f) IN
         /\ Ran("zip", f)
         /\ errors' = IF r.err THEN LogError(errors, impl, "zip")
                      ELSE errors
         /\ IF r.err THEN archive' \in {"none", "partial"}
                     ELSE archive' = "complete"
         /\ outDir' = IF r.removeDir THEN FALSE ELSE outDir
         /\ outItems' = IF r.removeDir THEN [n \in OutNames |-> Absent]
                        ELSE outItems
         /\ outputPath' = r.path
    /\ UNCHANGED <<exit, fn, auxVars, manifest, impl, cfg, inst, stats, totalFiles, result, fatal,
                   validation, opened>>

(* The path handed to the file browser. *)
OpenTarget(i, c) ==
    IF i = "go" THEN "parent"
    ELSE IF c.zip THEN "parent" ELSE "dir"

(* Step 11 of PerformQuiet; in TS main opens the folder after a           *)
(* successful performBackup. Go drops the error of cmd.Start(); in TS a   *)
(* spawn that throws is caught by main as an unexpected error.            *)
OpenFolder ==
    /\ \/ impl = "go" /\ pc = "finish" /\ pc' = "return"
       \/ impl = "ts" /\ pc = "returned" /\ pc' = "done"
    /\ IF cfg.open /\ (impl = "go" \/ result.success)
       THEN \E f \in {Ok, Fault("spawn")} :
              /\ f = Ok \/ faults < MaxFaults
              /\ opened' = OpenTarget(impl, cfg)
              /\ faults' = IF f = Ok THEN faults ELSE faults + 1
              /\ injected' = [injected EXCEPT !["open"] = f]
              /\ fatal' = IF impl = "ts" /\ f # Ok
                          THEN <<"Unexpected error">> ELSE fatal
       ELSE UNCHANGED <<opened, faults, injected, fatal>>
    /\ UNCHANGED <<exit, fn, auxVars, manifest, impl, cfg, inst, errors, stats, totalFiles, outDir,
                   outItems, archive, outputPath, result, validation,
                   attempted, failed>>

(* The result record is built and returned. *)
Return ==
    /\ \/ impl = "go" /\ pc = "return" /\ pc' = "done"
       \/ impl = "ts" /\ pc = "finish" /\ pc' = "returned"
    /\ result' = [returned |-> TRUE, success |-> Success(errors),
                  outputPath |-> outputPath, errors |-> errors,
                  stats |-> stats, totalFiles |-> totalFiles]
    /\ UNCHANGED <<exit, fn, auxVars, manifest, impl, cfg, inst, errors, stats, totalFiles, outDir,
                   outItems, archive, outputPath, fatal, validation,
                   attempted, failed, faults, opened, injected>>

(* The exit status of the process: main.go exits 1 on an error or an     *)
(* unsuccessful result and returns normally otherwise, a Go panic exits  *)
(* 2; index.ts exits 1 from every failure branch and from its catch.     *)
ExitStatus(i, p, res, fat) ==
    CASE p = "crashed" -> 2
      [] p \in {"aborted", "threw"} -> 1
      [] i = "ts" /\ fat # <<>> -> 1
      [] OTHER -> IF res.success THEN 0 ELSE 1

Exit ==
    /\ pc \in {"done", "aborted", "crashed", "threw"}
    /\ exit = Absent
    /\ exit' = ExitStatus(impl, pc, result, fatal)
    /\ UNCHANGED <<fn, auxVars, manifest, impl, cfg, inst, pc, errors, stats, totalFiles,
                   outDir, outItems, archive, outputPath, result, fatal,
                   validation, attempted, failed, faults, opened, injected>>

Next ==
    \/ Validate
    \/ CreateBackupDir
    \/ SkipStep
    \/ CopyScreenshots
    \/ ListMods
    \/ Shaderpacks
    \/ ListResourcepacks
    \/ Options
    \/ CopySaves
    \/ CopyXaero
    \/ CopyDistantHorizons
    \/ GenerateInfo
    \/ Zip
    \/ OpenFolder
    \/ Return
    \/ Exit

Spec == Init /\ [][Next]_vars

(***************************************************************************)
(* Properties                                                              *)
(***************************************************************************)

(* The run has gone past step s. *)
Past(s) ==
    \/ pc \in {"finish", "return", "returned", "done"}
    \/ pc \in Steps /\ StepIndex(pc) > StepIndex(s)

(* The selection flag of an optional category. *)
Selected(c, s) ==
    CASE s = "saves" -> c.saves
      [] s = "xaero" -> c.xaero
      [] OTHER -> c.dh

OptionalCats == {"saves", "xaero", "dh"}

(* C1 (as claimed): once the output directory exists, every step whose   *)
(* guard holds is attempted whatever the earlier steps did, the manifest  *)
(* is generated after the last copy step and the archive step runs when   *)
(* compression is selected; a run only ever stops before any step ran.    *)
C1_NoStepFailureHaltsRun ==
    /\ \A s \in Steps : (Past(s) /\ Guard(cfg, inst, s)) => s \in attempted
    /\ pc \in {"aborted", "crashed"} => (attempted = {} /\ ~outDir)

(* C2: the returned success flag is true exactly when the returned error  *)
(* list is empty, and that list is the error list at the end of the run,  *)
(* the archive step's error included.                                     *)
C2_SuccessIffNoErrors ==
    result.returned =>
        /\ result.success <=> (Len(result.errors) = 0)
        /\ result.errors = errors
        /\ (cfg.zip /\ "zip" \in failed) =>
               result.errors[Len(result.errors)] = ErrorString(impl, "zip")

C2_Witness ==
    /\ result.returned
    /\ failed = {"zip"}
    /\ ~result.success

(* C3 (as claimed): every step that failed has appended exactly one error *)
(* string of its category to the error list.                              *)
C3_EveryFailedStepLogsOneError ==
    \A s \in failed : CountIn(errors, ErrorString(impl, s)) = 1

(* C4: with no installation root the run aborts with a single error and   *)
(* writes nothing: no output directory, manifest, archive or result.      *)
C4_MissingRootAborts ==
    ~inst.root =>
        /\ pc \in {"start", "aborted"}
        /\ pc = "aborted" => Len(fatal) = 1
        /\ ~outDir
        /\ \A n \in OutNames : outItems[n] = Absent
        /\ archive = "none"
        /\ ~result.returned

C4_Witness ==
    /\ ~inst.root
    /\ pc = "aborted"
    /\ Len(fatal) = 1

(* C5 (as claimed): a root holding none of options.txt, mods/ and         *)
(* shaderpacks/ is rejected: no output directory and no result.           *)
C5_NoMarkerRejected ==
    (inst.root /\ inst.present \cap Markers = {}) =>
        (~outDir /\ ~result.returned)

(* C6: validateMinecraftPath answers valid exactly when the root exists   *)
(* with one of the three markers; valid comes with no error, invalid with *)
(* at least one.                                                          *)
C6_ValidIffRootAndMarker ==
    validation.done =>
        /\ validation.valid <=> (inst.root /\ inst.present \cap Markers # {})
        /\ validation.valid => validation.errors = <<>>
        /\ ~validation.valid => Len(validation.errors) > 0

C6_Witness ==
    /\ validation.done
    /\ validation.valid
    /\ inst.present = {"options"}

(* C7: for a missing root validateMinecraftPath answers invalid with      *)
(* exactly one error and probes none of the three markers.                *)
C7_MissingRootSkipsMarkerChecks ==
    (validation.done /\ ~inst.root) =>
        /\ ~validation.valid
        /\ Len(validation.errors) = 1
        /\ \A k \in 1..Len(validation.probes) :
               validation.probes[k] \notin Markers

C7_Witness ==
    /\ validation.done
    /\ ~inst.root
    /\ validation.probes = <<"root">>

(* C8 (as claimed): after a successful archive step the uncompressed      *)
(* directory is gone and the result reports the archive path.             *)
C8_ArchiveIsReportedLocation ==
    (result.returned /\ cfg.zip /\ "zip" \notin failed) =>
        (~outDir /\ archive = "complete" /\ result.outputPath = "zip")

C10_OptionalCopiedOnlyWhenSelected ==
    \A s \in OptionalCats :
        /\ (s \in attempted \/ outItems[OutName(s)] # Absent) =>
               (Selected(cfg, s) /\ Exists(inst, s))
        /\ ~Selected(cfg, s) =>
               /\ stats[StatField(s)] = 0
               /\ result.stats[StatField(s)] = 0
               /\ outItems[OutName(s)] = Absent

C10_Witness ==
    /\ pc = "done"
    /\ ~cfg.saves /\ Exists(inst, "saves")
    /\ stats.savesCopied = 0
    /\ outItems["saves"] = Absent
    /\ cfg.xaero /\ Exists(inst, "xaero")
    /\ stats.xaeroCopied > 0
    /\ outItems["xaero"] # Absent

(* The steps that own statistics fields, and their fields. *)
StatSteps == {"screenshots", "mods", "shaderpacks", "resourcepacks",
              "saves", "xaero", "dh"}

StatFields(s) ==
    IF s = "shaderpacks" THEN {"shadersListed", "shaderConfigsCopied"}
    ELSE {StatField(s)}

(* The sum of the counts of the categories whose files are copied. *)
CopiedSum(st) ==
    st.screenshotsCopied + st.shaderConfigsCopied + st.savesCopied +
    st.xaeroCopied + st.distantHorizonsCopied

(* C11 (as claimed): the total-files-copied of the Go result is the sum   *)
(* of the five copy counts and the number written in the manifest.        *)
C11_TotalIsSumOfCopyCounts ==
    (impl = "go" /\ result.returned) =>
        /\ result.totalFiles = CopiedSum(result.stats)
        /\ result.totalFiles = manifest.totalFiles

(* C12 (as claimed): a category whose step was skipped or failed keeps    *)
(* count 0 in the statistics and in the manifest, and no copy count       *)
(* exceeds the files written for its category.                            *)
C12_CountsOnlyForCompletedSteps ==
    /\ \A s \in StatSteps :
          (Past(s) /\ s \notin (attempted \ failed)) =>
              \A fld \in StatFields(s) :
                  /\ stats[fld] = 0
                  /\ manifest.written => manifest.stats[fld] = 0
    /\ outDir =>
          /\ \A s \in TreeCats : stats[StatField(s)] <= outItems[OutName(s)]
                                 \/ stats[StatField(s)] = 0
          /\ stats.shaderConfigsCopied = 0
             \/ stats.shaderConfigsCopied <= outItems["shader_configs"]

(* The names of all immediate entries of a directory. *)
EntryNames(entries) == {entries[k].name : k \in 1..Len(entries)}

(* C14 (as claimed): a completed catalog step lists every immediate file  *)
(* and subdirectory, and its count is the number of immediate entries.    *)
C14_CatalogListsEveryEntry ==
    \A s \in {"mods", "resourcepacks"} :
        (s \in attempted \ failed) =>
            /\ stats[StatField(s)] = Len(CatalogEntries)
            /\ {CatalogNames(impl, CatalogEntries)[k] :
                    k \in 1..Len(CatalogNames(impl, CatalogEntries))}
                 = EntryNames(CatalogEntries)
            /\ outDir => outItems[OutName(s)] = Len(CatalogEntries)

(* C17 (as claimed): computing a directory size never stops the run, and  *)
(* the manifest of an installation without mods/ (or without saves/ when  *)
(* saves are selected) is written with size 0.                            *)
C17_DirSizeNeverAbortsRun ==
    /\ pc # "crashed"
    /\ (Past("manifest") /\ ~Exists(inst, "mods")) =>
           (manifest.written /\ manifest.modsSize = 0)
    /\ (Past("manifest") /\ cfg.saves /\ ~Exists(inst, "saves")) =>
           (manifest.written /\ manifest.savesSize = 0)

(* C21 (as claimed): the exit status is zero when a result with success  *)
(* = true was returned, and non-zero when an error was recorded in the   *)
(* result or no result was returned.                                     *)
C21_ExitStatusReflectsResult ==
    exit # Absent =>
        /\ (result.returned /\ result.success) => exit = 0
        /\ (result.returned /\ result.errors # <<>>) => exit # 0
        /\ ~result.returned => exit # 0

(* C22 (as claimed): the path handed to the file browser is the parent   *)
(* of the archive when compression produced one, and the output          *)
(* directory otherwise.                                                  *)
C22_OpenedPathFollowsArchive ==
    opened # "none" =>
        opened = (IF archive = "complete" THEN "parent" ELSE "dir")

(* The sum of the tree-copy statistics. *)
TreeCopiedSum(st) ==
    st.screenshotsCopied + st.savesCopied + st.xaeroCopied
    + st.distantHorizonsCopied

(* C24: a tree copy that failed left exactly one error naming its        *)
(* category, a count of 0 and nothing in the total, and the files it had *)
(* copied before the failure are still in the output directory.          *)
C24_FailedTreeCopyKeepsPartialFiles ==
    \A s \in TreeCats :
        s \in failed =>
            /\ stats[StatField(s)] = 0
            /\ CountIn(errors, ErrorString(impl, s)) = 1
            /\ impl = "go" => totalFiles = TreeCopiedSum(stats)
            /\ outDir => outItems[OutName(s)] =
                           (IF injected[s].kind = "copy" THEN injected[s].at
                            ELSE Absent)

(* A copy of screenshots/ failed after its first file and the run ended  *)
(* with that file in place.                                              *)
C24_Witness ==
    /\ pc = "done" /\ outDir
    /\ "screenshots" \in failed
    /\ injected["screenshots"] = [kind |-> "copy", at |-> 1]
    /\ outItems["screenshots"] = 1
    /\ Len(errors) = 1

IsPrefix(a, b) == Len(a) <= Len(b) /\ SubSeq(b, 1, Len(a)) = a

(* The step an error string names. *)
ErrorStep(e) == CHOOSE s \in Steps : ErrorString(impl, s) = e

InStepOrder(errs) ==
    \A j \in 1..Len(errs) : \A k \in 1..Len(errs) :
        j < k => StepIndex(ErrorStep(errs[j])) < StepIndex(ErrorStep(errs[k]))

(* C25: every step leaves the earlier entries of the error log in place  *)
(* and the log lists its errors in step order, the archive error last.   *)
C25_ErrorLogGrowsInStepOrder ==
    [][IsPrefix(errors, errors') /\ InStepOrder(errors')]_vars

(* Two steps failed, the archive step the second of them. *)
C25_Witness ==
    /\ Len(errors) = 2
    /\ errors[2] = ErrorString(impl, "zip")
    /\ errors[1] = ErrorString(impl, "screenshots")

(* C28 (as claimed): when the output directory could not be created the  *)
(* run aborts with a single error and no copy or catalog step, manifest  *)
(* generation or archive step runs.                                      *)
C28_FailedMkdirAbortsBeforeAnyStep ==
    injected["mkdir"] # Ok =>
        /\ pc = "aborted"
        /\ Len(fatal) = 1
        /\ attempted = {}
        /\ errors = <<>>

(* C35 (as claimed): the manifest states success exactly when the        *)
(* returned result has success = true, and otherwise lists exactly the   *)
(* result's errors.                                                      *)
C35_ManifestStatusMatchesResult ==
    (result.returned /\ manifest.written) =>
        /\ (manifest.errors = <<>>) <=> result.success
        /\ ~result.success => manifest.errors = result.errors

(* The places a run can reach are the installation root, its parent     *)
(* (the two sidecar files), the backup_<timestamp> directory under the   *)
(* destination ("output") and the archive next to it.                    *)

(* A pipeline that copied options.txt from the backup to the             *)
(* installation.                                                         *)
WriteTargetsRestoringOptions(i, s) ==
    CASE s = "zip" -> {"archive", "output"}
      [] s = "options" -> {"installation"}
      [] OTHER -> {"output"}

(* Where a step creates, overwrites or deletes: every copy, catalog and  *)
(* manifest write is a path joined to the backup directory; the archive  *)
(* step creates backup_<timestamp>.zip and removes the directory.        *)
WriteTargets(i, s) ==
    CASE s = "zip" -> {"archive", "output"}
      [] OTHER -> {"output"}

(* Where a step reads. *)
ReadSources(i, s) ==
    CASE s = "zip" -> {"output"}
      [] s = "manifest" -> {"installation", "parent"}
      [] OTHER -> {"installation"}

(* The regions the run has written to so far. *)
Touched ==
    (IF outDir \/ injected["mkdir"] # Ok THEN {"output"} ELSE {}) \cup
    UNION {WriteTargets(impl, s) : s \in attempted}

MaxEntries == 3

(* The directories of up to MaxEntries entries handed to the shader      *)
(* split: every entry is a file or a directory, named *.txt or not.      *)
EntryName(k, txt) ==
    IF txt THEN (CASE k = 1 -> "e1.txt" [] k = 2 -> "e2.txt"
                   [] k = 3 -> "e3.txt" [] OTHER -> "e4.txt")
    ELSE (CASE k = 1 -> "e1" [] k = 2 -> "e2" [] k = 3 -> "e3"
            [] OTHER -> "e4")

EntryLists ==
    UNION {{[k \in 1..n |-> [name |-> EntryName(k, kinds[k].txt),
                             isDir |-> kinds[k].isDir, txt |-> kinds[k].txt]] :
              kinds \in [1..n -> [isDir : BOOLEAN, txt : BOOLEAN]]} :
           n \in 0..MaxEntries}

NamesOf(seq) == {seq[k].name : k \in 1..Len(seq)}

ShaderCalls ==
    {[op |-> "processShaderpacks", impl |-> i, done |-> FALSE, arg |-> es,
      out |-> <<>>] : i \in Impls, es \in EntryLists}

ApplyProcessShaderpacks ==
    /\ fn.op = "processShaderpacks"
    /\ ~fn.done
    /\ LET r == ProcessShaderpacks(fn.impl, fn.arg, Ok) IN
       fn' = [fn EXCEPT !.done = TRUE,
                        !.out = [packs |-> NamesOf(ShaderPacks(fn.impl, fn.arg)),
                                 configs |-> NamesOf(ShaderConfigs(fn.impl, fn.arg)),
                                 shadersListed |-> r.shaders,
                                 shaderConfigsCopied |-> r.configs]]
    /\ UNCHANGED <<pipeVars, auxVars>>

(* C13 (as claimed): the regular files named *.txt are the config files,  *)
(* every other file and every subdirectory whatever its name is a pack,   *)
(* and the two counts add up to the number of immediate entries.          *)
C13_ShaderEntriesPartitioned ==
    (fn.op = "processShaderpacks" /\ fn.done) =>
        /\ fn.out.configs =
             {fn.arg[k].name : k \in {j \in 1..Len(fn.arg) :
                                        ~fn.arg[j].isDir /\ fn.arg[j].txt}}
        /\ fn.out.packs =
             {fn.arg[k].name : k \in {j \in 1..Len(fn.arg) :
                                        fn.arg[j].isDir \/ ~fn.arg[j].txt}}
        /\ fn.out.configs \cap fn.out.packs = {}
        /\ fn.out.shadersListed + fn.out.shaderConfigsCopied = Len(fn.arg)

(* Every directory at and below t can be read. *)
RECURSIVE FullyReadable(_)
FullyReadable(t) ==
    t.kind = "dir" /\ \A e \in t.subs : FullyReadable(e[2])

(* filepath.WalkDir: the calls made to the walk function, by relative    *)
(* path. A directory that cannot be read is visited once as an entry     *)
(* and once more with the error; a root that cannot be stat'ed is        *)
(* reported with the error only. Entries come in name order, and the     *)
(* one subdirectory name sorts after the file names.                     *)
RECURSIVE WalkDir(_)
WalkDir(t) ==
    CASE t.kind = "missing" -> {[path |-> <<>>, dir |-> FALSE, err |-> TRUE]}
      [] t.kind = "unreadable" ->
            {[path |-> <<>>, dir |-> TRUE, err |-> FALSE],
             [path |-> <<>>, dir |-> TRUE, err |-> TRUE]}
      [] OTHER ->
            {[path |-> <<>>, dir |-> TRUE, err |-> FALSE]} \cup
            {[path |-> <<f>>, dir |-> FALSE, err |-> FALSE] : f \in t.files} \cup
            UNION {{[v EXCEPT !.path = <<e[1]>> \o v.path] : v \in WalkDir(e[2])} :
                     e \in t.subs}

(* copyDir (Go): directories are created, files copied and counted, and  *)
(* the first visit that carries an error ends the walk.                  *)
GoCopyDir(t) ==
    LET V == WalkDir(t)
        copied == {v \in V : ~v.err /\ ~v.dir}
    IN [err |-> \E v \in V : v.err,
        count |-> Cardinality(copied),
        files |-> {v.path : v \in copied},
        dirs |-> {v.path : v \in {w \in V : ~w.err /\ w.dir}}]

(* countFiles (TS): a directory that cannot be read counts as empty. *)
RECURSIVE CountFiles(_)
RECURSIVE CountFilesIn(_)
CountFiles(t) ==
    IF t.kind # "dir" THEN 0
    ELSE Cardinality(t.files) + CountFilesIn(t.subs)

CountFilesIn(S) ==
    IF S = {} THEN 0
    ELSE LET e == CHOOSE y \in S : TRUE IN CountFiles(e[2]) + CountFilesIn(S \ {e})

(* copyDirInternal (TS): the destination is ensured, every file is       *)
(* copied and counted and every subdirectory adds its own count; a       *)
(* failed readdir throws. Entries are taken in name order.               *)
RECURSIVE CopyDirInternal(_)
RECURSIVE CopySubs(_)
CopyDirInternal(t) ==
    IF t.kind # "dir"
    THEN [err |-> TRUE, count |-> 0, files |-> {}, dirs |-> {<<>>}]
    ELSE LET r == CopySubs(t.subs)
         IN [err |-> r.err,
             count |-> Cardinality(t.files) + r.count,
             files |-> {<<f>> : f \in t.files} \cup r.files,
             dirs |-> {<<>>} \cup r.dirs]

CopySubs(S) ==
    IF S = {} THEN [err |-> FALSE, count |-> 0, files |-> {}, dirs |-> {}]
    ELSE LET e == CHOOSE y \in S : TRUE
             r == CopyDirInternal(e[2])
             q == CopySubs(S \ {e})
         IN [err |-> r.err \/ q.err,
             count |-> r.count + q.count,
             files |-> {<<e[1]>> \o p : p \in r.files} \cup q.files,
             dirs |-> {<<e[1]>> \o p : p \in r.dirs} \cup q.dirs]

(* Mutant: every directory created below the destination is counted too. *)
CopyDirCountingDirectories(i, t, showProgress) ==
    LET r == IF i = "go" THEN GoCopyDir(t) ELSE CopyDirInternal(t)
    IN [r EXCEPT !.count = r.count + Cardinality(r.dirs \ {<<>>})]

(* copyDir of a tree: the Go walk, or the TS wrapper that returns 0      *)
(* without touching the destination when the progress count is zero.     *)
CopyDirTree(i, t, showProgress) ==
    IF i = "go" THEN GoCopyDir(t)
    ELSE IF showProgress /\ CountFiles(t) = 0
         THEN [err |-> FALSE, count |-> 0, files |-> {}, dirs |-> {}]
         ELSE CopyDirInternal(t)

CopyCalls ==
    {[op |-> "copyDir", impl |-> i, done |-> FALSE,
      arg |-> [tree |-> t, showProgress |-> sp], out |-> <<>>] :
       i \in Impls, t \in Trees(MaxDepth), sp \in BOOLEAN}

ApplyCopyDir ==
    /\ fn.op = "copyDir"
    /\ ~fn.done
    /\ fn' = [fn EXCEPT !.done = TRUE,
                        !.out = CopyDirTree(fn.impl, fn.arg.tree,
                                            fn.arg.showProgress)]
    /\ UNCHANGED <<pipeVars, auxVars>>

(* C15: copying a readable tree of N files writes exactly the N files    *)
(* at the same relative paths and returns N at every depth; directories  *)
(* add nothing to the count.                                             *)
C15_CopyTreeMirrorsAndCountsFiles ==
    (fn.op = "copyDir" /\ fn.done /\ FullyReadable(fn.arg.tree)) =>
        /\ ~fn.out.err
        /\ fn.out.files = FilePaths(fn.arg.tree)
        /\ fn.out.count = Cardinality(FilePaths(fn.arg.tree))

(* A tree with files at three levels has been copied. *)
C15_Witness ==
    /\ fn.op = "copyDir" /\ fn.done /\ FullyReadable(fn.arg.tree)
    /\ \E p \in fn.out.files : Len(p) = 1
    /\ \E p \in fn.out.files : Len(p) = 3
    /\ fn.out.count >= 3
    /\ DirPaths(fn.arg.tree) # {}

(* C16 (as claimed): a run that created its output directory writes      *)
(* info.md after the copy and catalog steps and before the archive step, *)
(* with or without step errors, and then returns a result.               *)
C16_ManifestAlwaysWritten ==
    /\ Past("manifest") => manifest.written
    /\ (outDir /\ pc \notin Steps \cup {"finish", "return", "returned"}) =>
          (pc = "done" /\ result.returned /\ manifest.written)

(***************************************************************************)
(* getMinecraftInfo                                                        *)
(***************************************************************************)

MaxComponents == 2

Unknown == "Unknown"

(* File names of mods/, in the name order os.ReadDir returns them. *)
ModNames == <<"a-quilt.jar", "fabric-api.jar", "forge-x.jar", "sodium.jar">>

NameRank(n) == CHOOSE k \in 1..Len(ModNames) : ModNames[k] = n

(* strings.Contains / includes of the lower-cased name. *)
Contains(n, sub) ==
    \/ n = "a-quilt.jar" /\ sub = "quilt"
    \/ n = "fabric-api.jar" /\ sub = "fabric"
    \/ n = "forge-x.jar" /\ sub = "forge"

LoaderOfName(n) ==
    CASE Contains(n, "fabric") -> "Fabric"
      [] Contains(n, "forge") -> "Forge"
      [] Contains(n, "quilt") -> "Quilt"
      [] OTHER -> Unknown

(* The versions a file can carry; the empty string is a present but      *)
(* empty value.                                                          *)
CfgVersion == "1.20.1"

PackVersions == {"", "1.21"}

ComponentUids == {"net.minecraft", "net.fabricmc.fabric-loader",
                  "net.minecraftforge"}

ModsDirs ==
    {[state |-> "absent", names |-> {}], [state |-> "unreadable", names |-> {}]}
    \cup {[state |-> "ok", names |-> S] :
            S \in SUBSET {ModNames[k] : k \in 1..Len(ModNames)}}

(* instance.cfg: absent, unreadable, without the key, or with a value. *)
CfgFiles ==
    {[state |-> "absent", key |-> FALSE, value |-> ""],
     [state |-> "unreadable", key |-> FALSE, value |-> ""],
     [state |-> "ok", key |-> FALSE, value |-> ""],
     [state |-> "ok", key |-> TRUE, value |-> ""],
     [state |-> "ok", key |-> TRUE, value |-> CfgVersion]}

(* mmc-pack.json: absent, unreadable, not JSON, or a component list. *)
PackFiles ==
    {[state |-> st, components |-> <<>>] : st \in {"absent", "unreadable", "badjson"}}
    \cup UNION {{[state |-> "ok", components |-> cs] :
                   cs \in [1..n -> [uid : ComponentUids, version : PackVersions]]} :
                n \in 0..MaxComponents}

(* The loader named by the first entry of mods/ that names one (Go). *)
GoModsLoader(names) ==
    LET hits == {n \in names : LoaderOfName(n) # Unknown}
    IN IF hits = {} THEN Unknown
       ELSE LoaderOfName(CHOOSE n \in hits :
                           \A m \in hits : NameRank(n) <= NameRank(m))

(* The loader named by any entry of mods/, Fabric before Forge before    *)
(* Quilt (TS).                                                           *)
TsModsLoader(names) ==
    CASE \E n \in names : Contains(n, "fabric") -> "Fabric"
      [] \E n \in names : Contains(n, "forge") -> "Forge"
      [] \E n \in names : Contains(n, "quilt") -> "Quilt"
      [] OTHER -> Unknown

(* The loop over the components of mmc-pack.json (Go): every component   *)
(* assigns, so the last one of a uid wins.                               *)
RECURSIVE GoComponents(_, _)
GoComponents(info, comps) ==
    IF comps = <<>> THEN info
    ELSE LET c == Head(comps)
             next == CASE c.uid = "net.minecraft" ->
                            [info EXCEPT !.version = c.version]
                       [] c.uid = "net.fabricmc.fabric-loader" ->
                            [info EXCEPT !.loader = "Fabric",
                                         !.loaderVersion = c.version]
                       [] c.uid = "net.minecraftforge" ->
                            [info EXCEPT !.loader = "Forge",
                                         !.loaderVersion = c.version]
                       [] OTHER -> info
         IN GoComponents(next, Tail(comps))

(* components?.find(c => c.uid === uid): the first component of a uid. *)
Find(comps, uid) == SelectSeq(comps, LAMBDA c : c.uid = uid)

(* getMinecraftInfo (Go): mods/, then mmc-pack.json, then instance.cfg;  *)
(* a file that cannot be read is passed over.                            *)
GoGetMinecraftInfo(src) ==
    LET i0 == [version |-> Unknown, loader |-> Unknown, loaderVersion |-> Unknown]
        i1 == IF src.mods.state = "ok"
              THEN [i0 EXCEPT !.loader = GoModsLoader(src.mods.names)]
              ELSE i0
        i2 == IF src.pack.state = "ok"
              THEN GoComponents(i1, src.pack.components)
              ELSE i1
    IN IF src.cfg.state = "ok" /\ src.cfg.key
       THEN [i2 EXCEPT !.version = src.cfg.value]
       ELSE i2

(* getMinecraftInfo (TS): mods/, then instance.cfg, then mmc-pack.json,  *)
(* inside one try block: the first read that throws ends the detection   *)
(* with what was found before it.                                        *)
TsGetMinecraftInfo(src) ==
    LET i0 == [version |-> Unknown, loader |-> Unknown, loaderVersion |-> Unknown]
        i1 == IF src.mods.state = "ok"
              THEN [i0 EXCEPT !.loader = TsModsLoader(src.mods.names)]
              ELSE i0
        i2 == IF src.cfg.state = "ok" /\ src.cfg.key /\ src.cfg.value # ""
              THEN [i1 EXCEPT !.version = src.cfg.value]
              ELSE i1
        mc == Find(src.pack.components, "net.minecraft")
        fabric == Find(src.pack.components, "net.fabricmc.fabric-loader")
        forge == Find(src.pack.components, "net.minecraftforge")
        OrUnknown(v) == IF v = "" THEN Unknown ELSE v
        i3 == IF mc # <<>> /\ mc[1].version # ""
              THEN [i2 EXCEPT !.version = mc[1].version]
              ELSE i2
        i4 == IF fabric # <<>>
              THEN [i3 EXCEPT !.loader = "Fabric",
                              !.loaderVersion = OrUnknown(fabric[1].version)]
              ELSE i3
        i5 == IF forge # <<>>
              THEN [i4 EXCEPT !.loader = "Forge",
                              !.loaderVersion = OrUnknown(forge[1].version)]
              ELSE i4
    IN CASE src.mods.state = "unreadable" -> i0
         [] src.cfg.state = "unreadable" -> i1
         [] src.pack.state \in {"unreadable", "badjson"} -> i2
         [] src.pack.state = "absent" -> i2
         [] OTHER -> i5

GetMinecraftInfo(i, src) ==
    IF i = "go" THEN GoGetMinecraftInfo(src) ELSE TsGetMinecraftInfo(src)

InfoCalls ==
    {[op |-> "getMinecraftInfo", impl |-> i, done |-> FALSE,
      arg |-> [mods |-> m, cfg |-> c, pack |-> p], out |-> <<>>] :
       i \in Impls, m \in ModsDirs, c \in CfgFiles, p \in PackFiles}

ApplyGetMinecraftInfo ==
    /\ fn.op = "getMinecraftInfo"
    /\ ~fn.done
    /\ fn' = [fn EXCEPT !.done = TRUE, !.out = GetMinecraftInfo(fn.impl, fn.arg)]
    /\ UNCHANGED <<pipeVars, auxVars>>

(* The game version a manifest supplies: the version of its one          *)
(* net.minecraft component, when that is not empty.                      *)
SuppliedByPack(p) ==
    LET mc == Find(p.components, "net.minecraft")
    IN IF p.state = "ok" /\ Len(mc) = 1 /\ mc[1].version # ""
       THEN {mc[1].version} ELSE {}

(* C18 (as claimed): when instance.cfg carries an IntendedVersion and    *)
(* mmc-pack.json a net.minecraft component with a version, the detected  *)
(* version is the one of the component manifest.                         *)
C18_ManifestVersionOverridesInstanceCfg ==
    (/\ fn.op = "getMinecraftInfo" /\ fn.done
     /\ fn.arg.cfg.state = "ok" /\ fn.arg.cfg.key /\ fn.arg.cfg.value # ""
     /\ SuppliedByPack(fn.arg.pack) # {})
    => fn.out.version \in SuppliedByPack(fn.arg.pack)

(***************************************************************************)
(* formatBytes and formatDuration                                          *)
(***************************************************************************)

MaxExp == 5

MaxTenths == 1200

(* The divisor of the unit ladder. *)
K == 1024

Units == <<"B", "KB", "MB", "GB", "TB">>

Min(a, b) == IF a < b THEN a ELSE b

(* Byte counts: zero, or (hi + lo / K) * K^e bytes with 1 <= hi < K, so  *)
(* that e is the largest power of K not above the count.                 *)
Mantissas == {1, 9, 512, K - 1}

Fractions == {0, 51, 52, 256, 512, 768, K - 1}

ByteCounts ==
    {[zero |-> TRUE, e |-> 0, hi |-> 0, lo |-> 0]} \cup
    {[zero |-> FALSE, e |-> 0, hi |-> hi, lo |-> 0] : hi \in Mantissas} \cup
    {[zero |-> FALSE, e |-> e, hi |-> hi, lo |-> lo] :
       e \in 1..MaxExp, hi \in Mantissas, lo \in Fractions}

(* hi + lo / K to one decimal place, as whole part and tenth: %.1f       *)
(* rounds a tie to the even digit, toFixed(1) to the larger one.         *)
OneDecimal(i, hi, lo) ==
    LET t == (10 * lo) \div K
        r == (10 * lo) % K
        up == \/ 2 * r > K
              \/ 2 * r = K /\ (i = "ts" \/ t % 2 = 1)
        tenths == 10 * hi + t + (IF up THEN 1 ELSE 0)
    IN [whole |-> tenths \div 10, tenth |-> tenths % 10]

(* formatBytes (Go): divide by K while the value is at least K and a     *)
(* larger unit is left.                                                  *)
GoFormatBytes(b) ==
    IF b.zero THEN [whole |-> 0, tenth |-> Absent, unit |-> "B"]
    ELSE LET i == Min(b.e, Len(Units) - 1)
             v == IF b.e = i THEN OneDecimal("go", b.hi, b.lo)
                  ELSE [whole |-> (b.hi * K + b.lo) * K ^ (b.e - i - 1),
                        tenth |-> 0]
         IN [whole |-> v.whole, tenth |-> v.tenth, unit |-> Units[i + 1]]

(* formatBytes (TS): the index is the floored logarithm, the divisor     *)
(* K^i, and an index past the ladder is named "TB".                      *)
TsFormatBytes(b) ==
    IF b.zero THEN [whole |-> 0, tenth |-> Absent, unit |-> "B"]
    ELSE LET i == b.e
             v == OneDecimal("ts", b.hi, b.lo)
         IN [whole |-> v.whole, tenth |-> v.tenth,
             unit |-> IF i + 1 <= Len(Units) THEN Units[i + 1] ELSE "TB"]

FormatBytes(i, b) == IF i = "go" THEN GoFormatBytes(b) ELSE TsFormatBytes(b)

BytesCalls ==
    {[op |-> "formatBytes", impl |-> i, done |-> FALSE, arg |-> b,
      out |-> <<>>] : i \in Impls, b \in ByteCounts}

ApplyFormatBytes ==
    /\ fn.op = "formatBytes"
    /\ ~fn.done
    /\ fn' = [fn EXCEPT !.done = TRUE, !.out = FormatBytes(fn.impl, fn.arg)]
    /\ UNCHANGED <<pipeVars, auxVars>>

(* formatDuration of d tenths of a second: "N.N seconds" below a minute  *)
(* and "Nm Ns" from there; Go truncates the seconds, TS rounds them.     *)
FormatDuration(i, d) ==
    IF d < 600
    THEN [form |-> "seconds", a |-> d \div 10, b |-> d % 10]
    ELSE [form |-> "minutes", a |-> d \div 600,
          b |-> IF i = "go" THEN (d \div 10) % 60
                ELSE ((d % 600) + 5) \div 10]

DurationCalls ==
    {[op |-> "formatDuration", impl |-> i, done |-> FALSE, arg |-> d,
      out |-> <<>>] : i \in Impls, d \in 0..MaxTenths}

ApplyFormatDuration ==
    /\ fn.op = "formatDuration"
    /\ ~fn.done
    /\ fn' = [fn EXCEPT !.done = TRUE, !.out = FormatDuration(fn.impl, fn.arg)]
    /\ UNCHANGED <<pipeVars, auxVars>>

(* C19 (as claimed): 0 is rendered "0 B"; a positive count is rendered   *)
(* in the largest unit not above it, TB at most, as the count divided by *)
(* that unit to one decimal place.                                       *)
C19_FormatBytesLargestUnitOneDecimal ==
    (fn.op = "formatBytes" /\ fn.done) =>
        LET b == fn.arg
            o == fn.out
            i == Min(b.e, Len(Units) - 1)
            d == (o.whole * 10 + o.tenth - b.hi * 10) * K - 10 * b.lo
        IN IF b.zero THEN o = [whole |-> 0, tenth |-> Absent, unit |-> "B"]
           ELSE /\ o.unit = Units[i + 1]
                /\ o.tenth \in 0..9
                /\ IF b.e = i THEN 2 * d <= K /\ 2 * d >= -K
                   ELSE /\ o.whole = (b.hi * K + b.lo) * K ^ (b.e - i - 1)
                        /\ o.tenth = 0

(* C20 (as claimed): below 60 seconds the rendering is "N.N seconds";    *)
(* from 60 seconds on it is "Nm Ns" with the whole minutes and a seconds *)
(* component between 0 and 59.                                           *)
C20_FormatDurationSecondsBelowSixty ==
    (fn.op = "formatDuration" /\ fn.done) =>
        IF fn.arg < 600
        THEN fn.out = [form |-> "seconds", a |-> fn.arg \div 10,
                       b |-> fn.arg % 10]
        ELSE /\ fn.out.form = "minutes"
             /\ fn.out.a = fn.arg \div 600
             /\ fn.out.b \in 0..59

(***************************************************************************)
(* createZip and getLargestItems                                           *)
(***************************************************************************)

MaxLimit == 3

(* Mutant: only the files directly below the source are archived. *)
CreateZipTopLevelOnly(i, t) ==
    [err |-> ~FullyReadable(t),
     entries |-> {p \in FilePaths(t) : Len(p) = 1}]

(* createZip: Go walks the source and writes one entry per file under    *)
(* its relative path, ending at the first visit that carries an error;   *)
(* TS hands the directory to archiver, which adds its contents under     *)
(* their relative paths.                                                 *)
CreateZip(i, t) ==
    IF i = "go"
    THEN LET V == WalkDir(t)
         IN [err |-> \E v \in V : v.err,
             entries |-> {v.path : v \in {w \in V : ~w.err /\ ~w.dir}}]
    ELSE [err |-> ~FullyReadable(t), entries |-> FilePaths(t)]

ZipCalls ==
    {[op |-> "createZip", impl |-> i, done |-> FALSE, arg |-> t,
      out |-> <<>>] : i \in Impls, t \in Trees(MaxDepth)}

ApplyCreateZip ==
    /\ fn.op = "createZip"
    /\ ~fn.done
    /\ fn' = [fn EXCEPT !.done = TRUE, !.out = CreateZip(fn.impl, fn.arg)]
    /\ UNCHANGED <<pipeVars, auxVars>>

(* The immediate children of a directory with the sizes the scan gives   *)
(* them: a file its own size, a subdirectory the result of getDirSize.   *)
Children(i, t) ==
    {[name |-> f, size |-> FileSize(f)] : f \in t.files} \cup
    {[name |-> e[1], size |-> GetDirSize(i, e[2]).size] : e \in t.subs}

(* Position of a child in the directory listing. *)
EntryRank(name) ==
    CASE name = "a" -> 1 [] name = "b" -> 2
      [] name = "w1" -> 3 [] name = "w2" -> 4
      [] name = "w3" -> 5 [] name = "w4" -> 6
      [] OTHER -> 7

(* The orders a descending sort by size can leave the items in: Go's     *)
(* sort.Slice may place equal sizes either way, the TS sort is stable.   *)
SortedOrders(i, items) ==
    LET n == Cardinality(items) IN
    {q \in [1..n -> items] :
       /\ \A j \in 1..n : \A k \in 1..n : j # k => q[j] # q[k]
       /\ \A j \in 1..n : \A k \in 1..n :
            j < k => /\ q[j].size >= q[k].size
                     /\ (i = "ts" /\ q[j].size = q[k].size) =>
                            EntryRank(q[j].name) < EntryRank(q[k].name)}

(* Mutant: the sorted list is returned whole. *)
GetLargestItemsUntruncated(i, t, limit) ==
    IF t.kind # "dir" THEN {<<>>} ELSE SortedOrders(i, Children(i, t))

(* getLargestItems: the lists the call can return. *)
GetLargestItems(i, t, limit) ==
    IF t.kind # "dir" THEN {<<>>}
    ELSE {SubSeq(q, 1, Min(limit, Len(q))) : q \in SortedOrders(i, Children(i, t))}

LargestCalls ==
    {[op |-> "getLargestItems", impl |-> i, done |-> FALSE,
      arg |-> [dir |-> t, limit |-> n], out |-> <<>>] :
       i \in Impls, t \in Trees(MaxDepth) \cup {Missing, Unreadable},
       n \in 0..MaxLimit}

ApplyGetLargestItems ==
    /\ fn.op = "getLargestItems"
    /\ ~fn.done
    /\ \E r \in GetLargestItems(fn.impl, fn.arg.dir, fn.arg.limit) :
         fn' = [fn EXCEPT !.done = TRUE, !.out = r]
    /\ UNCHANGED <<pipeVars, auxVars>>

(* C23: a completed archive holds exactly the files of the directory it  *)
(* was made from, each under its relative path.                          *)
C23_ArchiveMirrorsDirectory ==
    (fn.op = "createZip" /\ fn.done) =>
        /\ FullyReadable(fn.arg) => ~fn.out.err
        /\ ~fn.out.err => fn.out.entries = FilePaths(fn.arg)

(* A directory with files at three levels has been archived. *)
C23_Witness ==
    /\ fn.op = "createZip" /\ fn.done /\ ~fn.out.err
    /\ \E p \in fn.out.entries : Len(p) = 1
    /\ \E p \in fn.out.entries : Len(p) = 3

(* The first file of mods/, in listing order, that names a loader. *)
FirstLoaderFile(names) ==
    LET hits == {n \in names : \E sub \in {"fabric", "forge", "quilt"} :
                                  Contains(n, sub)}
    IN IF hits = {} THEN {}
       ELSE {CHOOSE n \in hits : \A m \in hits : NameRank(n) <= NameRank(m)}

HasLoaderComponent(p) ==
    /\ p.state = "ok"
    /\ \E k \in 1..Len(p.components) :
          p.components[k].uid \in {"net.fabricmc.fabric-loader",
                                   "net.minecraftforge"}

(* C26 (as claimed): without a loader component in mmc-pack.json the     *)
(* detected loader is the one named by the first file of mods/, in       *)
(* listing order, whose name contains fabric, forge or quilt.            *)
C26_FirstLoaderFileWins ==
    (/\ fn.op = "getMinecraftInfo" /\ fn.done
     /\ fn.arg.mods.state = "ok"
     /\ ~HasLoaderComponent(fn.arg.pack))
    => \A n \in FirstLoaderFile(fn.arg.mods.names) :
          fn.out.loader = LoaderOfName(n)

(* C27 (as claimed): a source that cannot be read or parsed does not     *)
(* keep the others from being consulted: a field for which a readable    *)
(* source carries a value is not left "Unknown".                         *)
C27_UnreadableSourceDoesNotHideOthers ==
    (fn.op = "getMinecraftInfo" /\ fn.done) =>
        LET a == fn.arg
            comps == IF a.pack.state = "ok" THEN a.pack.components ELSE <<>>
            versionSignal ==
                \/ a.cfg.state = "ok" /\ a.cfg.key /\ a.cfg.value # ""
                \/ \E k \in 1..Len(comps) :
                      comps[k].uid = "net.minecraft" /\ comps[k].version # ""
            loaderSignal ==
                \/ a.mods.state = "ok" /\ FirstLoaderFile(a.mods.names) # {}
                \/ HasLoaderComponent(a.pack)
        IN /\ versionSignal => fn.out.version # Unknown
           /\ loaderSignal => fn.out.loader # Unknown

(* C29 (as claimed): copying a readable tree without files creates the   *)
(* destination and every directory below it, returns 0 and reports no    *)
(* error.                                                                *)
C29_EmptyTreeStillMirrored ==
    (/\ fn.op = "copyDir" /\ fn.done
     /\ FullyReadable(fn.arg.tree) /\ FilePaths(fn.arg.tree) = {})
    => /\ ~fn.out.err
       /\ fn.out.count = 0
       /\ fn.out.dirs = {<<>>} \cup DirPaths(fn.arg.tree)

(* C30: the list has at most limit entries, all different immediate      *)
(* children of the directory, in non-increasing size order, no child     *)
(* left out is larger than one returned, and a directory that is absent  *)
(* gives the empty list.                                                 *)
C30_LargestItemsSortedAndTruncated ==
    (fn.op = "getLargestItems" /\ fn.done) =>
        LET t == fn.arg.dir
            o == fn.out
            all == IF t.kind = "dir" THEN Children(fn.impl, t) ELSE {}
            got == {o[k] : k \in 1..Len(o)}
        IN /\ Len(o) <= fn.arg.limit
           /\ got \subseteq all
           /\ Cardinality(got) = Len(o)
           /\ \A j \in 1..Len(o) : \A k \in 1..Len(o) :
                 j < k => o[j].size >= o[k].size
           /\ \A c \in all \ got : \A r \in got : c.size <= r.size
           /\ t.kind = "missing" => o = <<>>

(* Three children, one of them a directory, and the two largest returned. *)
C30_Witness ==
    /\ fn.op = "getLargestItems" /\ fn.done
    /\ fn.arg.limit = 2 /\ Len(fn.out) = 2
    /\ Cardinality(Children(fn.impl, fn.arg.dir)) = 3
    /\ fn.out[1].size > fn.out[2].size
    /\ \E c \in Children(fn.impl, fn.arg.dir) : c.size < fn.out[2].size

(***************************************************************************)
(* The save statistics of the manifest                                     *)
(***************************************************************************)

(* The limit generateInfoMD passes to getLargestItems. *)
StatisticsLimit == 3

(* The saves directories: absent, unreadable, or a directory whose        *)
(* immediate children are worlds, each a directory of files.              *)
SavesDirs ==
    {Missing, Unreadable} \cup
    {[kind |-> "dir", files |-> {}, subs |-> S] :
        S \in {T \in SUBSET ({"w1", "w2", "w3", "w4"} \X Trees(0)) :
                  \A e1 \in T : \A e2 \in T : e1[1] = e2[1] => e1 = e2}}

(* The save-statistics section of generateInfoMD: whether it is emitted,  *)
(* the world count it prints and the worlds it lists.                     *)
SaveStatistics(i, include, saves) ==
    LET size == IF include THEN GetDirSize(i, saves)
                ELSE [panic |-> FALSE, size |-> 0]
        scanned == include /\ (i = "go" => saves.kind # "missing")
    IN IF size.panic
       THEN {[panic |-> TRUE, emitted |-> FALSE, worldCount |-> 0,
              totalSize |-> 0, largest |-> <<>>]}
       ELSE {[panic |-> FALSE,
              emitted |-> scanned /\ Len(l) > 0,
              worldCount |-> IF scanned THEN Len(l) ELSE 0,
              totalSize |-> size.size,
              largest |-> IF scanned THEN l ELSE <<>>] :
                l \in GetLargestItems(i, saves, StatisticsLimit)}

StatisticsCalls ==
    {[op |-> "saveStatistics", impl |-> i, done |-> FALSE,
      arg |-> [include |-> b, saves |-> t],
      out |-> [panic |-> FALSE, emitted |-> FALSE, worldCount |-> 0,
               totalSize |-> 0, largest |-> <<>>]] :
       i \in Impls, b \in BOOLEAN, t \in SavesDirs}

ApplySaveStatistics ==
    /\ fn.op = "saveStatistics"
    /\ ~fn.done
    /\ \E r \in SaveStatistics(fn.impl, fn.arg.include, fn.arg.saves) :
         fn' = [fn EXCEPT !.done = TRUE, !.out = r]
    /\ UNCHANGED <<pipeVars, auxVars>>

(* C31 (as claimed): an emitted save-statistics section reports as world  *)
(* count the number of immediate children of the saves directory.         *)
C31_WorldCountIsNumberOfChildren ==
    (fn.op = "saveStatistics" /\ fn.done /\ fn.out.emitted) =>
        fn.out.worldCount = Cardinality(Children(fn.impl, fn.arg.saves))

(***************************************************************************)
(* normalizePath                                                           *)
(***************************************************************************)

MaxPathLen == 4

Quotes == {"\"", "'"}

(* String.prototype.trim. *)
RECURSIVE Trim(_)
Trim(s) ==
    IF s = <<>> THEN s
    ELSE IF s[1] = " " THEN Trim(Tail(s))
    ELSE IF s[Len(s)] = " " THEN Trim(SubSeq(s, 1, Len(s) - 1))
    ELSE s

(* replace(/^["']|["']$/g, ""): a quote at the start is removed, and a   *)
(* quote at the end of what follows is removed.                          *)
StripQuotes(s) ==
    LET t == IF s # <<>> /\ s[1] \in Quotes THEN Tail(s) ELSE s
    IN IF t # <<>> /\ t[Len(t)] \in Quotes THEN SubSeq(t, 1, Len(t) - 1)
       ELSE t

(* path.normalize on a path without dot segments: runs of separators      *)
(* collapse to one and the empty path becomes ".".                        *)
RECURSIVE Collapse(_)
Collapse(s) ==
    IF Len(s) < 2 THEN s
    ELSE IF s[1] = "/" /\ s[2] = "/" THEN Collapse(Tail(s))
    ELSE <<s[1]>> \o Collapse(Tail(s))

Normalize(s) == IF s = <<>> THEN <<".">> ELSE Collapse(s)

NormalizePath(s) == Normalize(StripQuotes(Trim(s)))

(* Removal of one pair of quotes: the same quote character at both ends. *)
StripMatchingPair(s) ==
    IF Len(s) >= 2 /\ s[1] \in Quotes /\ s[Len(s)] = s[1]
    THEN SubSeq(s, 2, Len(s) - 1)
    ELSE s

(* The paths entered: strings of the two quotes, a blank, a separator    *)
(* and an ordinary character.                                             *)
NormalizeCalls ==
    {[op |-> "normalizePath", impl |-> "ts", done |-> FALSE,
      arg |-> s, out |-> <<>>] :
       s \in UNION {[1..n -> Quotes \cup {" ", "/", "c"}] : n \in 0..MaxPathLen}}

ApplyNormalizePath ==
    /\ fn.op = "normalizePath"
    /\ ~fn.done
    /\ fn' = [fn EXCEPT !.done = TRUE, !.out = NormalizePath(fn.arg)]
    /\ UNCHANGED <<pipeVars, auxVars>>

(* C32 (as claimed): normalizePath returns the trimmed input with one     *)
(* matching pair of surrounding quotes removed, and removes a quote only  *)
(* when the same quote character stands at both ends.                     *)
C32_NormalizePathStripsMatchingPair ==
    (fn.op = "normalizePath" /\ fn.done) =>
        fn.out = Normalize(StripMatchingPair(Trim(fn.arg)))

(***************************************************************************)
(* A tree copy whose destination may lie inside its source                 *)
(***************************************************************************)

(* The longest path, in components, the file system accepts. *)
MaxPathDepth == 6

(* The copy destination relative to the source root when the backup       *)
(* destination is the source directory itself: backup_<timestamp>/<name>. *)
InsideDest == <<"backup", "screenshots">>

(* Position of a name in a directory listing. *)
WalkRank(name) ==
    CASE name = "a" -> 1 [] name = "b" -> 2 [] name = "backup" -> 3
      [] name = "screenshots" -> 4 [] OTHER -> 5

(* The paths of S in listing order. *)
RECURSIVE InListingOrder(_)
InListingOrder(S) ==
    IF S = {} THEN <<>>
    ELSE LET p == CHOOSE q \in S :
                     \A r \in S : WalkRank(q[Len(q)]) <= WalkRank(r[Len(r)])
         IN <<p>> \o InListingOrder(S \ {p})

(* readdir / ReadDir of directory p in a file system of directories D    *)
(* and files F.                                                           *)
Entries(p, D, F) ==
    InListingOrder({q \in D \cup F :
                       Len(q) = Len(p) + 1 /\ SubSeq(q, 1, Len(p)) = p})

(* The state of a copy before its first step: the source with the backup *)
(* directory already created in it when the destination is inside, and   *)
(* the source root waiting to be visited.                                 *)
WalkStart(t, inside) ==
    [dirs |-> {<<>>} \cup DirPaths(t) \cup
              (IF inside THEN {<<InsideDest[1]>>} ELSE {}),
     files |-> FilePaths(t),
     outDirs |-> {}, outFiles |-> {},
     stack |-> <<<<>>>>, visits |-> <<>>, count |-> 0, err |-> FALSE]

(* One visit of the walk: a directory is created at the destination and  *)
(* then listed, a file is copied and counted; a path longer than the     *)
(* file system accepts ends the copy with an error.                      *)
WalkStep(i, inside, w) ==
    LET p == Head(w.stack)
        base == IF inside THEN InsideDest ELSE <<>>
        target == base \o p
        tooLong == Len(target) > MaxPathDepth
    IN IF tooLong THEN [w EXCEPT !.err = TRUE, !.stack = <<>>]
       ELSE IF p \in w.dirs
       THEN LET D == IF inside
                      THEN w.dirs \cup {SubSeq(target, 1, n) : n \in 0..Len(target)}
                      ELSE w.dirs
            IN [w EXCEPT !.dirs = D,
                         !.outDirs = IF inside THEN @ ELSE @ \cup {target},
                         !.stack = Entries(p, D, w.files) \o Tail(w.stack)]
       ELSE [w EXCEPT !.files = IF inside THEN @ \cup {target} ELSE @,
                      !.outFiles = IF inside THEN @ ELSE @ \cup {target},
                      !.visits = Append(@, p),
                      !.count = @ + 1,
                      !.stack = Tail(w.stack)]

NestedCopyCalls ==
    {[op |-> "copyInto", impl |-> i, done |-> FALSE,
      arg |-> [tree |-> t, inside |-> b],
      out |-> WalkStart(t, b)] :
       i \in Impls, t \in {u \in Trees(1) : FullyReadable(u)}, b \in BOOLEAN}

(* The TS wrapper counts the files first and returns 0 when there are    *)
(* none; the Go walk starts at once.                                      *)
ApplyCopyInto ==
    /\ fn.op = "copyInto"
    /\ ~fn.done
    /\ IF fn.impl = "ts" /\ CountFiles(fn.arg.tree) = 0
       THEN fn' = [fn EXCEPT !.done = TRUE, !.out.stack = <<>>]
       ELSE LET w == WalkStep(fn.impl, fn.arg.inside, fn.out)
            IN fn' = [fn EXCEPT !.out = w, !.done = (w.stack = <<>>)]
    /\ UNCHANGED <<pipeVars, auxVars>>

(* C37 (as claimed): a tree copy ends after visiting every file of its   *)
(* source subtree exactly once, also when the destination lies inside    *)
(* the subtree being copied.                                              *)
C37_TreeCopyVisitsEachFileOnce ==
    (fn.op = "copyInto" /\ fn.done) =>
        /\ ~fn.out.err
        /\ Len(fn.out.visits) = Cardinality(FilePaths(fn.arg.tree))
        /\ \A p \in FilePaths(fn.arg.tree) :
              \E k \in 1..Len(fn.out.visits) : fn.out.visits[k] = p

(***************************************************************************)
(* One call of one helper function                                         *)
(***************************************************************************)

InitFn ==
    /\ \/ fn \in ShaderCalls
       \/ fn \in CopyCalls
       \/ fn \in InfoCalls
       \/ fn \in BytesCalls
       \/ fn \in DurationCalls
       \/ fn \in ZipCalls
       \/ fn \in LargestCalls
       \/ fn \in NestedCopyCalls
       \/ fn \in NormalizeCalls
       \/ fn \in StatisticsCalls
    /\ impl = fn.impl
    /\ cfg = [zip |-> FALSE, saves |-> FALSE, xaero |-> FALSE, dh |-> FALSE,
              open |-> FALSE]
    /\ inst = [root |-> FALSE, present |-> {}]
    /\ pc = "start"
    /\ errors = <<>>
    /\ stats = ZeroStats
    /\ totalFiles = 0
    /\ outDir = FALSE
    /\ outItems = [n \in OutNames |-> Absent]
    /\ archive = "none"
    /\ outputPath = "none"
    /\ result = NoResult
    /\ fatal = <<>>
    /\ validation = NoValidation
    /\ attempted = {}
    /\ failed = {}
    /\ faults = 0
    /\ opened = "none"
    /\ manifest = NoManifest
    /\ exit = Absent
    /\ injected = NoFaults
    /\ AuxAtRest

NextFn ==
    \/ ApplyProcessShaderpacks
    \/ ApplyCopyDir
    \/ ApplyGetMinecraftInfo
    \/ ApplyFormatBytes
    \/ ApplyFormatDuration
    \/ ApplyCreateZip
    \/ ApplyGetLargestItems
    \/ ApplyCopyInto
    \/ ApplyNormalizePath
    \/ ApplySaveStatistics

SpecFn == InitFn /\ [][NextFn]_vars

(***************************************************************************)
(* Perform and PerformQuiet side by side                                   *)
(***************************************************************************)

(* The pipeline variables of a specification that does not run it. *)
PipelineAtRest ==
    /\ impl = "go"
    /\ cfg = [zip |-> FALSE, saves |-> FALSE, xaero |-> FALSE, dh |-> FALSE,
              open |-> FALSE]
    /\ inst = [root |-> FALSE, present |-> {}]
    /\ pc = "start"
    /\ errors = <<>>
    /\ stats = ZeroStats
    /\ totalFiles = 0
    /\ outDir = FALSE
    /\ outItems = [n \in OutNames |-> Absent]
    /\ archive = "none"
    /\ outputPath = "none"
    /\ result = NoResult
    /\ fatal = <<>>
    /\ validation = NoValidation
    /\ attempted = {}
    /\ failed = {}
    /\ faults = 0
    /\ opened = "none"
    /\ manifest = NoManifest
    /\ exit = Absent
    /\ injected = NoFaults

(* One call of Perform or PerformQuiet before its first statement: the   *)
(* result record, the disk and the console.                               *)
EntryStart ==
    [pc |-> "start", errors |-> <<>>, stats |-> ZeroStats, totalFiles |-> 0,
     outDir |-> FALSE, outItems |-> [n \in OutNames |-> Absent],
     archive |-> "none", outputPath |-> "none", result |-> NoResult,
     fatal |-> <<>>, opened |-> "none", manifest |-> NoManifest,
     console |-> <<>>]

(* fmt.Println / fmt.Printf: only Perform has these statements. *)
Say(mode, r, line) ==
    IF mode = "verbose" THEN [r EXCEPT !.console = Append(@, line)] ELSE r

(* An entry point that printed a step's error instead of recording it. *)
AppendErrorQuietOnly(mode, errs, s) ==
    IF mode = "verbose" THEN errs ELSE LogError(errs, "go", s)

(* result.Errors = append(result.Errors, ...) in either entry point. *)
AppendError(mode, errs, s) == LogError(errs, "go", s)

(* The statement of Perform (mode "verbose") or PerformQuiet (mode       *)
(* "quiet") at r.pc, under fault f; left is what a failed archive step   *)
(* leaves at the archive path.                                            *)
EntryStep(mode, c, layout, r, f, left) ==
    LET s == r.pc
        on == [r EXCEPT !.pc = NextPc(s, f # Ok)]
    IN CASE s = "start" ->
              IF RootMissing(layout)
              THEN [r EXCEPT !.pc = "aborted",
                             !.fatal = <<"minecraft path does not exist">>]
              ELSE [r EXCEPT !.pc = "mkdir"]
         [] s = "mkdir" ->
              IF MkdirReported("go", f)
              THEN [r EXCEPT !.pc = "aborted",
                             !.fatal = <<"failed to create backup folder">>]
              ELSE Say(mode, [r EXCEPT !.pc = StepOrder[1], !.outDir = TRUE],
                       "creating backup")
         [] s \in Steps /\ ~Guard(c, layout, s) -> on
         [] s \in TreeCats /\ Guard(c, layout, s) ->
              LET x == CopyDir("go", NumFiles(s), f)
                  w == [Say(mode, on, s) EXCEPT
                          !.outItems = [@ EXCEPT ![OutName(s)] = x.written]]
              IN IF x.err
                 THEN [w EXCEPT !.errors = AppendError(mode, @, s)]
                 ELSE Say(mode, [w EXCEPT !.stats = [@ EXCEPT ![StatField(s)] = x.count],
                                          !.totalFiles = @ + x.count],
                          "copied")
         [] s \in {"mods", "resourcepacks"} /\ Guard(c, layout, s) ->
              LET x == ListStep("go", CatalogEntries, f)
                  w == [Say(mode, on, s) EXCEPT
                          !.outItems = [@ EXCEPT ![OutName(s)] = x.lines]]
              IN IF x.set
                 THEN Say(mode, [w EXCEPT !.stats = [@ EXCEPT ![StatField(s)] = x.count]],
                          "listed")
                 ELSE w
         [] s = "shaderpacks" /\ Guard(c, layout, s) ->
              LET x == ProcessShaderpacks("go", ShaderEntries, f)
                  w == [Say(mode, on, s) EXCEPT
                          !.outItems = [@ EXCEPT !["shaders.txt"] = x.lines,
                                                 !["shader_configs"] = x.copied]]
              IN IF x.set
                 THEN Say(mode, [w EXCEPT !.stats = [@ EXCEPT
                                            !.shadersListed = x.shaders,
                                            !.shaderConfigsCopied = x.configs]],
                          "listed")
                 ELSE w
         [] s = "options" /\ Guard(c, layout, s) ->
              [Say(mode, on, s) EXCEPT
                 !.outItems = [@ EXCEPT !["options.txt"] = CopyOptions("go", f).written]]
         [] s = "manifest" ->
              LET x == InfoMD("go", c, layout, r.stats, r.errors)
                  w == Say(mode, on, s)
              IN IF x.panic THEN [w EXCEPT !.pc = "crashed"]
                 ELSE [w EXCEPT !.manifest = x.doc,
                                !.outItems = [@ EXCEPT !["info.md"] = 1],
                                !.outputPath = "dir"]
         [] s = "zip" /\ Guard(c, layout, s) ->
              LET x == ZipStep("go", f)
                  w == [Say(mode, on, s) EXCEPT !.outputPath = x.path]
              IN IF x.err
                 THEN [w EXCEPT !.errors = AppendError(mode, @, s),
                                !.archive = left]
                 ELSE Say(mode, [w EXCEPT !.archive = "complete",
                                          !.outDir = FALSE,
                                          !.outItems = [n \in OutNames |-> Absent]],
                          "zip created")
         [] s = "finish" ->
              [r EXCEPT !.pc = "return",
                        !.opened = IF c.open THEN OpenTarget("go", c) ELSE @]
         [] OTHER ->
              [r EXCEPT !.pc = "done",
                        !.result = [returned |-> TRUE,
                                    success |-> Success(r.errors),
                                    outputPath |-> r.outputPath,
                                    errors |-> r.errors, stats |-> r.stats,
                                    totalFiles |-> r.totalFiles]]

(* The faults the statement at pc can meet. *)
EntryFaults(c, p) ==
    CASE p = "mkdir" -> {Ok, Fault("fail"), Fault("exists")}
      [] p = "finish" /\ c.open -> {Ok, Fault("spawn")}
      [] p \in Steps -> {Ok} \cup StepFaults(p)
      [] OTHER -> {Ok}

InitPair ==
    /\ PipelineAtRest
    /\ fn = NoCall
    /\ runs = NotStarted /\ spin = NotStarted /\ tui = NotStarted
    /\ \E c \in Configs, layout \in Layouts :
         pair = [pc |-> "both", cfg |-> c, inst |-> layout, faults |-> 0,
                 quiet |-> EntryStart, verbose |-> EntryStart]

(* Both entry points execute their next statement in the same            *)
(* environment: the same installation, selection and fault.              *)
Both(p) ==
    /\ pair.pc = "both"
    /\ pair.quiet.pc = p
    /\ \E f \in EntryFaults(pair.cfg, p), left \in {"none", "partial"} :
         /\ f = Ok \/ pair.faults < MaxFaults
         /\ (p = "zip" /\ f # Ok) \/ left = "none"
         /\ pair' = [pair EXCEPT
                       !.faults = IF f = Ok THEN @ ELSE @ + 1,
                       !.quiet = EntryStep("quiet", pair.cfg, pair.inst, @, f, left),
                       !.verbose = EntryStep("verbose", pair.cfg, pair.inst, @, f, left)]
    /\ UNCHANGED <<pipeVars, fn, runs, spin, tui>>

NextPair == \E p \in {"start", "mkdir", "finish", "return"} \cup Steps : Both(p)

SpecPair == InitPair /\ [][NextPair]_vars

(* What a call leaves behind apart from its console output: the result   *)
(* or the error it returns, and the disk.                                 *)
Outcome(r) ==
    [pc |-> r.pc, errors |-> r.errors, stats |-> r.stats,
     totalFiles |-> r.totalFiles, outDir |-> r.outDir,
     outItems |-> r.outItems, archive |-> r.archive,
     outputPath |-> r.outputPath, result |-> r.result, fatal |-> r.fatal,
     opened |-> r.opened, manifest |-> r.manifest]

TicksPerMinute == 3

MaxClock == 5

(* generateTimestamp / Format("2006-01-02_15-04"): the minute of the     *)
(* clock reading.                                                         *)
Timestamp(t) == t \div TicksPerMinute

(* filepath.Join(dest, "backup_" + timestamp): the name carries the      *)
(* timestamp and nothing else.                                            *)
BackupPath(t) == [stamp |-> Timestamp(t), suffix |-> 0]

BackupPaths == [stamp : 0..Timestamp(MaxClock), suffix : {0, 1}]

(* The entries of a backup directory and, for each, the run that wrote   *)
(* it last (0: not there).                                                *)
RunItems == {"info.md", "saves"}

(* A path of the destination with nothing at it. *)
Nothing == [there |-> FALSE, items |-> [n \in RunItems |-> 0]]

(* A creation of the backup directory that rejected an existing one. *)
MkdirExistingFails(i, present) == present

(* os.MkdirAll / mkdir with recursive: whether the creation of a         *)
(* directory fails, given that the directory is already there.            *)
MkdirExisting(i, present) == FALSE

InitRuns ==
    /\ PipelineAtRest
    /\ fn = NoCall
    /\ pair = NotStarted /\ spin = NotStarted /\ tui = NotStarted
    /\ \E i \in Impls, c1 \in [zip : BOOLEAN, saves : BOOLEAN],
          c2 \in [zip : BOOLEAN, saves : BOOLEAN], t \in 0..MaxClock :
         runs = [pc |-> "idle", impl |-> i, clock |-> t, run |-> 0,
                 cfgs |-> <<c1, c2>>,
                 paths |-> <<BackupPath(0), BackupPath(0)>>,
                 started |-> <<0, 0>>,
                 aborted |-> <<FALSE, FALSE>>,
                 dirs |-> [p \in BackupPaths |-> Nothing],
                 zips |-> [p \in BackupPaths |-> Nothing]]

(* Time passes. *)
Tick ==
    /\ runs.pc # "none"
    /\ runs.clock < MaxClock
    /\ runs' = [runs EXCEPT !.clock = @ + 1]
    /\ UNCHANGED <<pipeVars, fn, pair, spin, tui>>

(* A run starts: it reads the clock once and derives its backup path. *)
StartRun ==
    /\ runs.pc = "idle"
    /\ runs.run < 2
    /\ runs' = [runs EXCEPT !.pc = "mkdir", !.run = @ + 1,
                            !.paths[runs.run + 1] = BackupPath(runs.clock),
                            !.started[runs.run + 1] = runs.clock]
    /\ UNCHANGED <<pipeVars, fn, pair, spin, tui>>

(* The backup directory is created, or found in place. *)
MakeBackupDir ==
    /\ runs.pc = "mkdir"
    /\ LET p == runs.paths[runs.run]
           present == runs.dirs[p].there
       IN IF MkdirExisting(runs.impl, present)
          THEN runs' = [runs EXCEPT !.pc = "idle", !.aborted[runs.run] = TRUE]
          ELSE runs' = [runs EXCEPT !.pc = "write",
                                    !.dirs[p].there = TRUE]
    /\ UNCHANGED <<pipeVars, fn, pair, spin, tui>>

(* The copy steps and info.md: info.md always, saves/ when selected;     *)
(* each entry written replaces the one of the same name.                 *)
WriteItems ==
    /\ runs.pc = "write"
    /\ LET p == runs.paths[runs.run]
           c == runs.cfgs[runs.run]
       IN runs' = [runs EXCEPT
                     !.pc = IF c.zip THEN "zip" ELSE "idle",
                     !.dirs[p].items = [n \in RunItems |->
                                          IF n = "info.md" \/ c.saves THEN runs.run
                                          ELSE runs.dirs[p].items[n]]]
    /\ UNCHANGED <<pipeVars, fn, pair, spin, tui>>

(* createZip truncates the file at path + ".zip" and archives the        *)
(* directory as it stands; the directory is then removed.                *)
ArchiveItems ==
    /\ runs.pc = "zip"
    /\ LET p == runs.paths[runs.run]
       IN runs' = [runs EXCEPT !.pc = "idle",
                               !.zips[p] = runs.dirs[p],
                               !.dirs[p] = Nothing]
    /\ UNCHANGED <<pipeVars, fn, pair, spin, tui>>

NextRuns ==
    \/ Tick
    \/ StartRun
    \/ MakeBackupDir
    \/ WriteItems
    \/ ArchiveItems

SpecRuns == InitRuns /\ [][NextRuns]_vars

BothRunsOver == runs.run = 2 /\ runs.pc = "idle"

SameMinute == Timestamp(runs.started[1]) = Timestamp(runs.started[2])

(* C33: two runs started in the same minute use the same backup path;    *)
(* the second is not stopped by the directory being there, and what it   *)
(* writes replaces what the first left at that path, directory or        *)
(* archive; no other name is used.                                        *)
C33_SameMinuteRunsShareBackupPath ==
    (BothRunsOver /\ SameMinute) =>
        LET p == runs.paths[1] IN
        /\ runs.paths[2] = p
        /\ p.suffix = 0
        /\ ~runs.aborted[2]
        /\ IF runs.cfgs[2].zip
           THEN runs.zips[p].there /\ runs.zips[p].items["info.md"] = 2
           ELSE runs.dirs[p].there /\ runs.dirs[p].items["info.md"] = 2
        /\ \A q \in BackupPaths \ {p} :
              ~runs.dirs[q].there /\ ~runs.zips[q].there

(* The second run wrote into the directory the first had left, keeping   *)
(* the first run's saves.                                                 *)
C33_Witness ==
    /\ BothRunsOver /\ SameMinute
    /\ runs.started[1] # runs.started[2]
    /\ runs.dirs[runs.paths[2]].there
    /\ runs.dirs[runs.paths[2]].items["info.md"] = 2
    /\ runs.dirs[runs.paths[2]].items["saves"] = 1

(***************************************************************************)
(* The spinner of main.go                                                  *)
(***************************************************************************)

(* len(spinnerFrames) *)
NumFrames == 10

(* An unbuffered channel turned into one that takes a value with no      *)
(* receiver waiting.                                                      *)
SendCompletesAtOnce(receiverReady) == TRUE

(* done := make(chan bool): a send completes only together with a        *)
(* receive.                                                               *)
SendCompletes(receiverReady) == receiverReady

(* The statements of PerformQuiet, in order. *)
Statements == <<"start", "mkdir">> \o StepOrder \o <<"finish">>

InitSpin ==
    /\ PipelineAtRest
    /\ fn = NoCall
    /\ pair = NotStarted /\ runs = NotStarted /\ tui = NotStarted
    /\ spin = [pc |-> "main", main |-> "start", step |-> 0,
               outcome |-> "none", sp |-> "unstarted", frame |-> 0,
               printed |-> FALSE, buffered |-> 0, cleared |-> FALSE,
               lateFrame |-> FALSE]

(* go showSpinner(...) *)
StartSpinner ==
    /\ spin.main = "start"
    /\ spin' = [spin EXCEPT !.main = "backup", !.sp = "select"]
    /\ UNCHANGED <<pipeVars, fn, pair, runs, tui>>

(* PerformQuiet executes its next statement, whatever the spinner does. *)
BackupStep ==
    /\ spin.main = "backup"
    /\ spin.step < Len(Statements)
    /\ spin' = [spin EXCEPT !.step = @ + 1]
    /\ UNCHANGED <<pipeVars, fn, pair, runs, tui>>

(* PerformQuiet returns: an error from the root check or from the        *)
(* creation of the backup directory, a result after its last statement.  *)
BackupReturn ==
    /\ spin.main = "backup"
    /\ \E o \in {"result", "error"} :
         /\ o = "result" => spin.step = Len(Statements)
         /\ o = "error" => /\ spin.step < Len(Statements)
                           /\ Statements[spin.step + 1] \in {"start", "mkdir"}
         /\ spin' = [spin EXCEPT !.main = "send", !.outcome = o]
    /\ UNCHANGED <<pipeVars, fn, pair, runs, tui>>

(* PerformQuiet panics while writing the manifest: the process dies. *)
BackupPanic ==
    /\ spin.main = "backup"
    /\ spin.step < Len(Statements)
    /\ Statements[spin.step + 1] = "manifest"
    /\ spin' = [spin EXCEPT !.main = "crashed", !.outcome = "panic",
                            !.sp = "stopped"]
    /\ UNCHANGED <<pipeVars, fn, pair, runs, tui>>

(* done <- true, and case <-done of the spinner's select when the two    *)
(* meet.                                                                  *)
SendDone ==
    /\ spin.main = "send"
    /\ SendCompletes(spin.sp = "select")
    /\ spin' = IF spin.sp = "select"
               THEN [spin EXCEPT !.main = "clear", !.sp = "stopped"]
               ELSE [spin EXCEPT !.main = "clear", !.buffered = 1]
    /\ UNCHANGED <<pipeVars, fn, pair, runs, tui>>

(* select: a value already in the channel is received; with no sender    *)
(* waiting the default case is taken.                                     *)
SpinSelect ==
    /\ spin.sp = "select"
    /\ spin.main # "send"
    /\ spin' = IF spin.buffered > 0
               THEN [spin EXCEPT !.sp = "stopped", !.buffered = 0]
               ELSE [spin EXCEPT !.sp = "print"]
    /\ UNCHANGED <<pipeVars, fn, pair, runs, tui>>

(* fmt.Printf of the frame, i++ *)
SpinPrint ==
    /\ spin.sp = "print"
    /\ spin' = [spin EXCEPT !.sp = "sleep",
                            !.frame = (@ + 1) % NumFrames,
                            !.printed = TRUE,
                            !.lateFrame = @ \/ spin.cleared]
    /\ UNCHANGED <<pipeVars, fn, pair, runs, tui>>

(* time.Sleep returns *)
SpinWake ==
    /\ spin.sp = "sleep"
    /\ spin' = [spin EXCEPT !.sp = "select"]
    /\ UNCHANGED <<pipeVars, fn, pair, runs, tui>>

(* The spinner line is overwritten with blanks. *)
ClearLine ==
    /\ spin.main = "clear"
    /\ spin' = [spin EXCEPT !.main = "report", !.cleared = TRUE]
    /\ UNCHANGED <<pipeVars, fn, pair, runs, tui>>

(* The result screen or the failure message. *)
Report ==
    /\ spin.main = "report"
    /\ spin' = [spin EXCEPT !.main = "end"]
    /\ UNCHANGED <<pipeVars, fn, pair, runs, tui>>

NextSpin ==
    \/ StartSpinner
    \/ BackupStep
    \/ BackupReturn
    \/ BackupPanic
    \/ SendDone
    \/ SpinSelect
    \/ SpinPrint
    \/ SpinWake
    \/ ClearLine
    \/ Report

(* Both goroutines are scheduled again and again. *)
SpecSpin ==
    /\ InitSpin
    /\ [][NextSpin]_vars
    /\ WF_vars(StartSpinner) /\ WF_vars(BackupStep \/ BackupReturn)
    /\ WF_vars(SendDone) /\ WF_vars(SpinSelect) /\ WF_vars(SpinPrint)
    /\ WF_vars(SpinWake) /\ WF_vars(ClearLine) /\ WF_vars(Report)

(* The spinner never holds PerformQuiet up, it is stopped when the line  *)
(* is cleared, and no frame is printed after that.                        *)
SpinnerSafe ==
    /\ spin.main = "backup" => ENABLED (BackupStep \/ BackupReturn)
    /\ spin.cleared => spin.sp = "stopped"
    /\ ~spin.lateFrame

(* C38: the spinner runs beside PerformQuiet without holding it up; once *)
(* PerformQuiet has returned, the send on done is received, the spinner  *)
(* stops, and no frame is printed after the line has been cleared.       *)
C38_SpinnerStopsBeforeLineIsCleared ==
    /\ []SpinnerSafe
    /\ (spin.main = "send") ~> (spin.sp = "stopped" /\ spin.main = "clear")
    /\ (spin.main = "send") ~> spin.cleared

(* The spinner printed frames during the backup and the line has been    *)
(* cleared after a returned result.                                       *)
C38_Witness ==
    /\ spin.cleared
    /\ spin.printed
    /\ spin.outcome = "result"
    /\ spin.sp = "stopped"

(***************************************************************************)
(* The terminal form of the Go front end                                   *)
(***************************************************************************)

(* The longest text the model types into the input field. *)
MaxInput == 1

(* The keys pressed; k and j, which the option list treats as up and     *)
(* down, are left to their arrow keys.                                   *)
Keys == {"up", "down", " ", "x", "a", "enter", "esc", "ctrl+c", "backspace"}

(* filepath.Join(homeDir, "TotemBackups"); os.UserHomeDir() gives the   *)
(* directory, or the empty string with an error that is dropped.         *)
DefaultDest(home) ==
    IF home = <<>> THEN <<"TotemBackups">> ELSE home \o <<"/", "TotemBackups">>

(* initialModel *)
InitialModel ==
    [stage |-> "StageOptions",
     options |-> <<FALSE, FALSE, FALSE, FALSE, TRUE>>,
     cursor |-> 0, value |-> <<>>, mcPath |-> <<>>, backupDest |-> <<>>,
     quitting |-> FALSE, cancelled |-> FALSE]

(* A form that closed on esc without marking the run as cancelled. *)
OnQuitKeyNotCancelling(m) == [m EXCEPT !.quitting = TRUE]

(* case "ctrl+c", "esc" of Update *)
OnQuitKey(m) == [m EXCEPT !.quitting = TRUE, !.cancelled = TRUE]

(* textInput.Update on a key: a character is appended, backspace        *)
(* removes the last one.                                                  *)
TextInputUpdate(v, key) ==
    IF key \in {" ", "x", "a"} /\ Len(v) < MaxInput THEN Append(v, key)
    ELSE IF key = "backspace" /\ v # <<>> THEN SubSeq(v, 1, Len(v) - 1)
    ELSE v

(* updateOptions: the model after the key. *)
UpdateOptions(m, key) ==
    CASE key \in {"up", "k"} ->
            [m EXCEPT !.cursor = IF @ > 0 THEN @ - 1 ELSE @]
      [] key \in {"down", "j"} ->
            [m EXCEPT !.cursor = IF @ < Len(m.options) - 1 THEN @ + 1 ELSE @]
      [] key \in {" ", "x"} ->
            [m EXCEPT !.options[m.cursor + 1] = ~@]
      [] key = "a" ->
            LET allChecked == \A k \in 1..Len(m.options) : m.options[k]
            IN [m EXCEPT !.options = [k \in 1..Len(m.options) |-> ~allChecked]]
      [] key = "enter" ->
            [m EXCEPT !.stage = "StageMCPath", !.value = <<>>]
      [] OTHER -> m

(* updateTextInput: the model after the key and whether tea.Quit is      *)
(* returned.                                                              *)
UpdateTextInput(m, key, home) ==
    IF key = "enter" /\ m.stage = "StageMCPath" /\ m.value = <<>>
    THEN [m |-> m, quit |-> FALSE]
    ELSE IF key = "enter" /\ m.stage = "StageBackupDest"
    THEN [m |-> [m EXCEPT !.backupDest = IF m.value = <<>>
                                         THEN DefaultDest(home) ELSE m.value,
                          !.stage = "StageDone",
                          !.quitting = TRUE],
          quit |-> TRUE]
    ELSE LET n == IF key = "enter"
                  THEN [m EXCEPT !.mcPath = m.value,
                                 !.stage = "StageBackupDest",
                                 !.value = <<>>]
                  ELSE m
         IN [m |-> [n EXCEPT !.value = TextInputUpdate(@, key)],
             quit |-> FALSE]

(* Update on a key message. *)
Update(m, key, home) ==
    IF key \in {"ctrl+c", "esc"} THEN [m |-> OnQuitKey(m), quit |-> TRUE]
    ELSE CASE m.stage = "StageOptions" ->
                [m |-> UpdateOptions(m, key), quit |-> FALSE]
           [] m.stage \in {"StageMCPath", "StageBackupDest"} ->
                UpdateTextInput(m, key, home)
           [] OTHER -> [m |-> m, quit |-> FALSE]

NilConfig ==
    [nil |-> TRUE, mcPath |-> <<>>, backupDest |-> <<>>, zip |-> FALSE,
     saves |-> FALSE, xaero |-> FALSE, dh |-> FALSE, open |-> FALSE]

(* GetConfig *)
GetConfig(m) ==
    IF m.cancelled THEN NilConfig
    ELSE [nil |-> FALSE, mcPath |-> m.mcPath, backupDest |-> m.backupDest,
          zip |-> m.options[1], saves |-> m.options[2],
          xaero |-> m.options[3], dh |-> m.options[4], open |-> m.options[5]]

InitTui ==
    /\ PipelineAtRest
    /\ fn = NoCall
    /\ pair = NotStarted /\ runs = NotStarted /\ spin = NotStarted
    /\ \E h \in {<<>>, <<"h">>} :
         tui = [pc |-> "form", home |-> h, m |-> InitialModel,
                quitCmd |-> FALSE, escPressed |-> FALSE,
                config |-> NilConfig, started |-> FALSE, status |-> Absent]

(* A key is pressed and Update handles it; keys keep arriving until the  *)
(* quit message is processed.                                             *)
PressKey ==
    /\ tui.pc = "form"
    /\ \E key \in Keys :
         LET u == Update(tui.m, key, tui.home)
         IN tui' = [tui EXCEPT !.m = u.m,
                               !.quitCmd = @ \/ u.quit,
                               !.escPressed = @ \/ key \in {"ctrl+c", "esc"}]
    /\ UNCHANGED <<pipeVars, fn, pair, runs, spin>>

(* The quit message ends the program and Run returns GetConfig of the    *)
(* final model.                                                           *)
RunReturns ==
    /\ tui.pc = "form"
    /\ tui.quitCmd
    /\ tui' = [tui EXCEPT !.pc = "main", !.config = GetConfig(tui.m)]
    /\ UNCHANGED <<pipeVars, fn, pair, runs, spin>>

(* main with a nil config: the cancelled screen and exit status 0. *)
ShowCancelled ==
    /\ tui.pc = "main"
    /\ tui.config.nil
    /\ tui' = [tui EXCEPT !.pc = "exited", !.status = 0]
    /\ UNCHANGED <<pipeVars, fn, pair, runs, spin>>

(* main with a config: the pipeline is started. *)
StartBackup ==
    /\ tui.pc = "main"
    /\ ~tui.config.nil
    /\ tui' = [tui EXCEPT !.pc = "backup", !.started = TRUE]
    /\ UNCHANGED <<pipeVars, fn, pair, runs, spin>>

NextTui ==
    \/ PressKey
    \/ RunReturns
    \/ ShowCancelled
    \/ StartBackup

SpecTui == InitTui /\ [][NextTui]_vars

====
